---- MODULE Spec2Model ----
\* Payment lifecycle worker of wallet-ms-backend: the payment store, the task
\* queue and the two task handlers (status check, process), modelled step by
\* step at the points where a handler calls the store or the queue.
EXTENDS Integers, Sequences, FiniteSets, Bags, TLC

\* ---------------------------------------------------------------- bounds
MaxPayments == 1
MaxTasks == 2
Concurrency == 2
RetryMaxAttempts == 1
PaymentCheckInterval == 1

\* ------------------------------------------------------ program constants
\* simulatePaymentGatewayCheck: elapsed > 2*time.Minute (time unit: one minute)
AgeThreshold == 2

\* Elapsed times are kept relative to "now" and saturate one unit above the
\* threshold, the only comparison the code makes on them.
AgeCap == AgeThreshold + 1

\* The code compares UpdatedAt with nothing: the time elapsed since it is
\* kept as 0 (set at this moment) or 1 (set earlier).
UpdatedCap == 1

PaymentStatusPending == "pending"
PaymentStatusCompleted == "completed"
PaymentStatusFailed == "failed"
PaymentStatusCanceled == "canceled"

TypeCheckPaymentStatus == "payment:check_status"
TypeProcessPayment == "payment:process"

PaymentIds == 1..MaxPayments

Min(a, b) == IF a < b THEN a ELSE b
Max(a, b) == IF a > b THEN a ELSE b

\* ------------------------------------------------------------ entity
\* IsValid that only asks for a status to be given.
IsValidNonEmpty(ps) == ps # ""

\* PaymentStatus.IsValid
IsValid(ps) ==
    ps \in {PaymentStatusPending, PaymentStatusCompleted,
            PaymentStatusFailed, PaymentStatusCanceled}

\* The statuses the status-check handler treats as final.
IsFinal(status) ==
    \/ status = PaymentStatusCompleted
    \/ status = PaymentStatusFailed
    \/ status = PaymentStatusCanceled

\* A description is its text without the timestamp the worker appends to it
\* (the time of the write, which the row keeps as its updated timestamp).
NoDesc == ""

\* A row of the payments table (entity.Payment); exists = FALSE: no such row.
\* Its primary key is its index in the table. age: the time elapsed since
\* CreatedAt; updated: the time elapsed since UpdatedAt; deleted: DeletedAt is
\* set (the row is soft-deleted: it stays in the table and no query finds it).
NoRow ==
    [exists |-> FALSE, amount |-> 0, currency |-> "", status |-> "",
     description |-> NoDesc, userID |-> 0, age |-> 0, updated |-> 0,
     deleted |-> FALSE]

\* What is left at an id whose row was removed from the table (DELETE FROM
\* payments): no row, and the id is used up, the table's sequence does not
\* go back.
Removed == [NoRow EXCEPT !.status = "removed"]
\* What is left at every id when the table itself was dropped.
Dropped == [NoRow EXCEPT !.status = "dropped"]
\* The payments table does not exist: every statement on it fails.
TableDropped(store) == \E id \in DOMAIN store : store[id] = Dropped

\* dto.PaymentResponse
NoView ==
    [id |-> 0, amount |-> 0, currency |-> "", status |-> "",
     description |-> NoDesc, userID |-> 0, age |-> 0, updated |-> 0]

\* What the status-check handler reads of the payment it fetched: Status and
\* CreatedAt. (The process handler reads no field of the payment it fetched.)
Read(view) == [status |-> view.status, age |-> view.age]

\* paymentService.entityToResponse
entityToResponse(id, row) ==
    [id |-> id, amount |-> row.amount, currency |-> row.currency,
     status |-> row.status, description |-> row.description,
     userID |-> row.userID, age |-> row.age, updated |-> row.updated]

\* ------------------------------------------------------------ errors
\* An error is the chain of its messages, outermost first; nil is <<>>.
Nil == <<>>
Wrap(msg, err) == <<msg>> \o err

\* ------------------------------------------------------- task payloads
\* The bytes of a task payload, as the JSON document they spell: whether the
\* bytes are a JSON object at all, and the object's fields in order.
NumVal(n) == [t |-> "num", n |-> n, s |-> ""]
StrVal(s) == [t |-> "str", n |-> 0, s |-> s]
Field(k, v) == [key |-> k, val |-> v]
JsonObject(fields) == [object |-> TRUE, fields |-> fields]
NotJson == [object |-> FALSE, fields |-> <<>>]

\* json.Marshal(CheckPaymentStatusPayload{PaymentID: id}) and the same for
\* ProcessPaymentPayload: {"payment_id": id}
Marshal(paymentID) == JsonObject(<<Field("payment_id", NumVal(paymentID))>>)

\* The spellings of a name in upper and lower case: letters[i] is the set of
\* the spellings of its i-th character.
RECURSIVE Spellings(_, _)
Spellings(letters, n) ==
    IF n = 0 THEN {""}
    ELSE {s \o c : s \in Spellings(letters, n - 1), c \in letters[n]}

\* The keys of a JSON object that json.Unmarshal takes for the field tagged
\* `payment_id`: the name itself and, as no other field can match a key
\* exactly, every key equal to it under case folding.
PaymentIDLetters ==
    << {"p", "P"}, {"a", "A"}, {"y", "Y"}, {"m", "M"}, {"e", "E"}, {"n", "N"},
       {"t", "T"}, {"_"}, {"i", "I"}, {"d", "D"} >>
PaymentIDKeys == Spellings(PaymentIDLetters, Len(PaymentIDLetters))
MatchesPaymentID(key) == key \in PaymentIDKeys

\* Unmarshal that takes a payment_id of the wrong type for an absent one.
UnmarshalLenient(bytes) ==
    IF ~bytes.object THEN [err |-> <<"invalid character">>, id |-> 0]
    ELSE LET idx == {i \in DOMAIN bytes.fields :
                        /\ MatchesPaymentID(bytes.fields[i].key)
                        /\ bytes.fields[i].val.t = "num"}
         IN IF idx = {} THEN [err |-> Nil, id |-> 0]
            ELSE [err |-> Nil,
                  id |-> bytes.fields[CHOOSE i \in idx : \A j \in idx : j <= i].val.n]

\* json.Unmarshal into a payload struct with one uint field `payment_id`:
\* not an object: error; no key matches the field: zero value; a matching
\* key whose value is not a non-negative number: error; several matching
\* keys, in whatever spelling: the last one wins.
Unmarshal(bytes) ==
    IF ~bytes.object THEN [err |-> <<"invalid character">>, id |-> 0]
    ELSE LET idx == {i \in DOMAIN bytes.fields : MatchesPaymentID(bytes.fields[i].key)}
             bad == {i \in idx : bytes.fields[i].val.t # "num" \/ bytes.fields[i].val.n < 0}
         IN IF bad # {} THEN [err |-> <<"cannot unmarshal into uint">>, id |-> 0]
            ELSE IF idx = {} THEN [err |-> Nil, id |-> 0]
            ELSE [err |-> Nil,
                  id |-> bytes.fields[CHOOSE i \in idx : \A j \in idx : j <= i].val.n]

\* Payloads a producer other than the worker's own schedulers may submit
\* that do not decode.
MalformedPayloads ==
    { NotJson,
      JsonObject(<<Field("payment_id", StrVal("abc"))>>) }

\* Payloads of such a producer that decode: the key in another spelling, and
\* no key of the field next to the key twice.
ForeignPayloads ==
    { JsonObject(<<Field("Payment_ID", NumVal(1))>>),
      JsonObject(<<Field("id", NumVal(1)), Field("payment_id", NumVal(1)),
                   Field("PAYMENT_ID", NumVal(0))>>) }

\* ------------------------------------------------------- payment store
\* paymentRepository.GetByID: db.First(&payment, id). dbFails: the database
\* call itself fails (connection lost, timeout); on a dropped table every
\* call fails.
GetByID(store, id, dbFails) ==
    IF dbFails \/ TableDropped(store) THEN [err |-> <<"db unavailable">>, row |-> NoRow]
    ELSE IF id \notin DOMAIN store \/ ~store[id].exists \/ store[id].deleted
         THEN [err |-> <<"record not found">>, row |-> NoRow]
         ELSE [err |-> Nil, row |-> store[id]]

\* GetPaymentByID that answers a missing row with an empty payment.
GetPaymentByIDZeroValue(store, id, dbFails) ==
    LET got == GetByID(store, id, dbFails)
    IN IF got.err # Nil
       THEN IF got.err = <<"record not found">>
            THEN [err |-> Nil, view |-> NoView]
            ELSE [err |-> got.err, view |-> NoView]
       ELSE [err |-> Nil, view |-> entityToResponse(id, got.row)]

\* paymentService.GetPaymentByID
GetPaymentByID(store, id, dbFails) ==
    LET got == GetByID(store, id, dbFails)
    IN IF got.err # Nil
       THEN IF got.err = <<"record not found">>
            THEN [err |-> <<"payment not found">>, view |-> NoView]
            ELSE [err |-> got.err, view |-> NoView]
       ELSE [err |-> Nil, view |-> entityToResponse(id, got.row)]

\* What the database may answer a save with. "ok": the row is written;
\* "fails": the call fails (connection lost, timeout); "conflict": the row is
\* written unless it was soft-deleted meanwhile, in which case the save is
\* refused as a duplicate key. (db.Save updates the row that is not deleted
\* and, when it matched none, inserts: depending on the library's version the
\* insert overwrites the soft-deleted row or collides with it.)
SaveOutcomes == {"ok", "fails", "conflict"}

\* Update that leaves a row alone once its stored status is final.
RepoUpdateKeepsFinal(store, id, row, db) ==
    IF db = "fails" \/ TableDropped(store)
    THEN [err |-> <<"db unavailable">>, store |-> store]
    ELSE IF store[id].deleted /\ db = "conflict"
    THEN [err |-> <<"duplicate key">>, store |-> store]
    ELSE IF IsFinal(store[id].status) THEN [err |-> Nil, store |-> store]
    ELSE [err |-> Nil, store |-> [store EXCEPT ![id] = [row EXCEPT !.updated = 0]]]

\* paymentRepository.Update: db.Save(payment) writes the whole row, the
\* caller's copy with its DeletedAt unset, and stamps UpdatedAt with the time
\* of the save.
RepoUpdate(store, id, row, db) ==
    IF db = "fails" \/ TableDropped(store)
    THEN [err |-> <<"db unavailable">>, store |-> store]
    ELSE IF store[id].deleted /\ db = "conflict"
    THEN [err |-> <<"duplicate key">>, store |-> store]
    ELSE [err |-> Nil, store |-> [store EXCEPT ![id] = [row EXCEPT !.updated = 0]]]

\* paymentRepository.Delete: db.Delete(&entity.Payment{}, id) sets DeletedAt
\* on the row that is not deleted yet; no such row is no error.
RepoDelete(store, id, dbFails) ==
    IF dbFails \/ TableDropped(store) THEN [err |-> <<"db unavailable">>, store |-> store]
    ELSE IF id \notin DOMAIN store \/ ~store[id].exists \/ store[id].deleted
    THEN [err |-> Nil, store |-> store]
    ELSE [err |-> Nil, store |-> [store EXCEPT ![id].deleted = TRUE]]

\* paymentService.DeletePayment, its first half: the lookup of the payment.
DeletePaymentFind(store, id, dbFails) ==
    LET got == GetByID(store, id, dbFails)
    IN IF got.err # Nil
       THEN IF got.err = <<"record not found">>
            THEN [err |-> <<"payment not found">>]
            ELSE [err |-> got.err]
       ELSE [err |-> Nil]

\* paymentService.DeletePayment, its second half: the delete by id, whatever
\* has become of the row since the lookup, and the answer.
DeletePaymentRemove(store, id, dbFails) == RepoDelete(store, id, dbFails)

\* paymentService.DeletePayment with nothing else between its lookup and
\* its delete. fault: which database call fails, if any ("none", "get" or
\* "delete").
DeletePayment(store, id, fault) ==
    LET found == DeletePaymentFind(store, id, fault = "get")
    IN IF found.err # Nil THEN [err |-> found.err, store |-> store]
       ELSE DeletePaymentRemove(store, id, fault = "delete")

\* dto.UpdatePaymentRequest
UpdatePaymentRequest(status, description) ==
    [status |-> status, description |-> description]

\* UpdatePaymentRead that takes the description from the request even when
\* the request gives none.
UpdatePaymentReadOverwritesDescription(store, id, req, dbFails) ==
    LET got == GetByID(store, id, dbFails)
    IN IF got.err # Nil
       THEN IF got.err = <<"record not found">>
            THEN [err |-> <<"payment not found">>, row |-> NoRow]
            ELSE [err |-> got.err, row |-> NoRow]
       ELSE IF ~IsValid(req.status)
       THEN [err |-> <<"invalid payment status">>, row |-> NoRow]
       ELSE [err |-> Nil,
             row |-> [got.row EXCEPT
                        !.status = req.status,
                        !.description = req.description,
                        !.updated = 0]]

\* paymentService.UpdatePayment, its first half: fetch the row, validate the
\* requested status, and set the status, the description (when one is given)
\* and the updated timestamp on the fetched copy.
UpdatePaymentRead(store, id, req, dbFails) ==
    LET got == GetByID(store, id, dbFails)
    IN IF got.err # Nil
       THEN IF got.err = <<"record not found">>
            THEN [err |-> <<"payment not found">>, row |-> NoRow]
            ELSE [err |-> got.err, row |-> NoRow]
       ELSE IF ~IsValid(req.status)
       THEN [err |-> <<"invalid payment status">>, row |-> NoRow]
       ELSE [err |-> Nil,
             row |-> [got.row EXCEPT
                        !.status = req.status,
                        !.description =
                            IF req.description # "" THEN req.description ELSE @,
                        !.updated = 0]]

\* paymentService.UpdatePayment, its second half: save the copy and answer
\* with it. db: what the database answers the save with.
UpdatePaymentWrite(store, id, row, db) ==
    LET saved == RepoUpdate(store, id, row, db)
    IN IF saved.err # Nil
       THEN [err |-> saved.err, store |-> store, view |-> NoView]
       ELSE [err |-> Nil, store |-> saved.store,
             view |-> entityToResponse(id, saved.store[id])]

\* paymentService.UpdatePayment with nothing else between its fetch and its
\* save. fault: which database call fails, if any ("none", "get" or "save").
UpdatePayment(store, id, req, fault) ==
    LET read == UpdatePaymentRead(store, id, req, fault = "get")
    IN IF read.err # Nil
       THEN [err |-> read.err, store |-> store, view |-> NoView]
       ELSE UpdatePaymentWrite(store, id, read.row,
                               IF fault = "save" THEN "fails" ELSE "ok")

\* ------------------------------------------------- gateway stand-ins
\* time.Now().UnixNano() % 10
RandValues == 0..9

\* simulatePaymentGatewayCheck with the age test off by one (>= for >).
simulatePaymentGatewayCheckAtThreshold(payment, rand) ==
    IF payment.age >= AgeThreshold
    THEN IF rand < 8 THEN PaymentStatusCompleted
         ELSE IF rand < 9 THEN PaymentStatusFailed
         ELSE PaymentStatusPending
    ELSE PaymentStatusPending

\* simulatePaymentGatewayCheck whose third outcome is canceled.
simulatePaymentGatewayCheckCancels(payment, rand) ==
    IF payment.age > AgeThreshold
    THEN IF rand < 8 THEN PaymentStatusCompleted
         ELSE IF rand < 9 THEN PaymentStatusFailed
         ELSE PaymentStatusCanceled
    ELSE PaymentStatusPending

\* PaymentWorker.simulatePaymentGatewayCheck
simulatePaymentGatewayCheck(payment, rand) ==
    IF payment.age > AgeThreshold
    THEN IF rand < 8 THEN PaymentStatusCompleted
         ELSE IF rand < 9 THEN PaymentStatusFailed
         ELSE PaymentStatusPending
    ELSE PaymentStatusPending

\* PaymentWorker.simulatePaymentProcessing
simulatePaymentProcessing(payment, rand) == rand < 9

\* ------------------------------------------------------------- tasks
\* What one handler invocation has done so far: the decoded payment id, the
\* payment it fetched, the status it resolved, the copy of the row its call
\* of UpdatePayment holds between the fetch and the save, and the calls it
\* made on the store and on the queue, in order.
NoInv ==
    [handler |-> "none", id |-> 0, fetched |-> Read(NoView), newStatus |-> "",
     row |-> NoRow, calls |-> <<>>, err |-> Nil]

Call(op, id, status, description, typ, queue, delay, maxRetry, err) ==
    [op |-> op, id |-> id, status |-> status, description |-> description,
     typ |-> typ, queue |-> queue, delay |-> delay, maxRetry |-> maxRetry,
     err |-> err]
GetCall(id, err) == Call("get", id, "", NoDesc, "", "", 0, 0, err)
UpdateCall(id, req, err) == Call("update", id, req.status, req.description, "", "", 0, 0, err)
EnqueueCall(id, typ, queue, delay, maxRetry, err) ==
    Call("enqueue", id, "", NoDesc, typ, queue, delay, maxRetry, err)

\* The queues the server consumes, with their weights.
Queues == {"critical", "default", "low"}
QueueWeight(q) == CASE q = "critical" -> 6 [] q = "default" -> 3 [] q = "low" -> 1

\* A task of the queue. state: scheduled (delayed), pending (ready), active
\* (a handler invocation holds it), retry (failed, awaiting redelivery),
\* archived (dead letter). The queue is the bag of its tasks.
\* asynq.NewTask with the options ProcessIn(delay), Queue(queue), MaxRetry(n)
NewTask(typ, payload, queue, delay, maxRetry) ==
    [state |-> IF delay > 0 THEN "scheduled" ELSE "pending",
     typ |-> typ, payload |-> payload, queue |-> queue,
     maxRetry |-> maxRetry, retried |-> 0, remaining |-> delay,
     pc |-> "", inv |-> NoInv]

One(task) == SetToBag({task})
Replace(tk, old, new) == (tk (-) One(old)) (+) One(new)

\* Client.Enqueue: the broker stores the task, or the submission fails.
\* It returns the stored task's info (its identifier) or the error.
NoInfo == [ID |-> ""]
TaskInfo(task) == [ID |-> "task-id"]
Enqueue(tk, task, fails) ==
    IF fails \/ BagCardinality(tk) >= MaxTasks
    THEN [err |-> <<"enqueue failed">>, tasks |-> tk, info |-> NoInfo]
    ELSE [err |-> Nil, tasks |-> tk (+) One(task), info |-> TaskInfo(task)]

\* What a scheduling method returns to its caller: the error alone (the
\* task's identifier goes to the log).
Returned1(err) == [err |-> err]

\* SchedulePaymentStatusCheck that leaves out the MaxRetry option: the task
\* gets the queue library's default retry count.
SchedulePaymentStatusCheckDefaultRetry(tk, paymentID, delay, fails) ==
    LET task == NewTask(TypeCheckPaymentStatus, Marshal(paymentID), "default",
                        delay, 25)
        sent == Enqueue(tk, task, fails)
    IN [err |-> IF sent.err # Nil THEN Wrap("failed to enqueue task", sent.err) ELSE Nil,
        ret |-> Returned1(IF sent.err # Nil THEN Wrap("failed to enqueue task", sent.err) ELSE Nil),
        info |-> sent.info,
        tasks |-> sent.tasks,
        call |-> EnqueueCall(paymentID, task.typ, task.queue, delay, task.maxRetry, sent.err)]

\* SchedulePaymentStatusCheck that leaves out the ProcessIn option: the task
\* is ready at once.
SchedulePaymentStatusCheckNoDelay(tk, paymentID, delay, fails) ==
    LET task == NewTask(TypeCheckPaymentStatus, Marshal(paymentID), "default",
                        0, RetryMaxAttempts)
        sent == Enqueue(tk, task, fails)
    IN [err |-> IF sent.err # Nil THEN Wrap("failed to enqueue task", sent.err) ELSE Nil,
        ret |-> Returned1(IF sent.err # Nil THEN Wrap("failed to enqueue task", sent.err) ELSE Nil),
        info |-> sent.info,
        tasks |-> sent.tasks,
        call |-> EnqueueCall(paymentID, task.typ, task.queue, 0, task.maxRetry, sent.err)]

\* PaymentWorker.SchedulePaymentStatusCheck
SchedulePaymentStatusCheck(tk, paymentID, delay, fails) ==
    LET task == NewTask(TypeCheckPaymentStatus, Marshal(paymentID), "default",
                        delay, RetryMaxAttempts)
        sent == Enqueue(tk, task, fails)
    IN [err |-> IF sent.err # Nil THEN Wrap("failed to enqueue task", sent.err) ELSE Nil,
        ret |-> Returned1(IF sent.err # Nil THEN Wrap("failed to enqueue task", sent.err) ELSE Nil),
        info |-> sent.info,
        tasks |-> sent.tasks,
        call |-> EnqueueCall(paymentID, task.typ, task.queue, delay, task.maxRetry, sent.err)]

\* SchedulePaymentProcessing that submits to the queue of the status checks.
SchedulePaymentProcessingDefaultQueue(tk, paymentID, fails) ==
    LET task == NewTask(TypeProcessPayment, Marshal(paymentID), "default",
                        0, RetryMaxAttempts)
        sent == Enqueue(tk, task, fails)
    IN [err |-> IF sent.err # Nil THEN Wrap("failed to enqueue task", sent.err) ELSE Nil,
        ret |-> Returned1(IF sent.err # Nil THEN Wrap("failed to enqueue task", sent.err) ELSE Nil),
        info |-> sent.info,
        tasks |-> sent.tasks,
        call |-> EnqueueCall(paymentID, task.typ, task.queue, 0, task.maxRetry, sent.err)]

\* PaymentWorker.SchedulePaymentProcessing
SchedulePaymentProcessing(tk, paymentID, fails) ==
    LET task == NewTask(TypeProcessPayment, Marshal(paymentID), "critical",
                        0, RetryMaxAttempts)
        sent == Enqueue(tk, task, fails)
    IN [err |-> IF sent.err # Nil THEN Wrap("failed to enqueue task", sent.err) ELSE Nil,
        ret |-> Returned1(IF sent.err # Nil THEN Wrap("failed to enqueue task", sent.err) ELSE Nil),
        info |-> sent.info,
        tasks |-> sent.tasks,
        call |-> EnqueueCall(paymentID, task.typ, task.queue, 0, task.maxRetry, sent.err)]

\* What the queue does with a task when its handler returns err: success
\* acknowledges (the task is gone), failure redelivers up to maxRetry times,
\* then dead-letters.
Ack(tk, task, err) ==
    IF err = Nil THEN tk (-) One(task)
    ELSE IF task.retried < task.maxRetry
    THEN Replace(tk, task, [task EXCEPT !.state = "retry", !.retried = @ + 1,
                                        !.pc = "", !.inv = NoInv])
    ELSE Replace(tk, task, [task EXCEPT !.state = "archived", !.pc = "", !.inv = NoInv])

\* ------------------------------------------------------- the handlers
\* Each handler is cut where it calls the store or the queue; a step returns
\* the invocation record and where the handler stands next ("return": the
\* handler has returned inv.err).
Step(pc, inv) == [pc |-> pc, inv |-> inv]
Logged(inv, call) == [inv EXCEPT !.calls = Append(@, call)]
Returns(inv, err) == Step("return", [inv EXCEPT !.err = err])

\* CheckFetch with a short-circuit that does not know the canceled status.
CheckFetchCanceledNotFinal(payload, store, dbFails, rand) ==
    LET inv0 == [NoInv EXCEPT !.handler = "check"]
        dec == Unmarshal(payload)
    IN IF dec.err # Nil THEN Returns(inv0, Wrap("json.Unmarshal failed", dec.err))
       ELSE
       LET got == GetPaymentByID(store, dec.id, dbFails)
           inv1 == Logged([inv0 EXCEPT !.id = dec.id], GetCall(dec.id, got.err))
       IN IF got.err # Nil THEN Returns(inv1, Wrap("failed to get payment", got.err))
          ELSE
          LET payment == got.view
              inv2 == [inv1 EXCEPT !.fetched = Read(payment)]
          IN IF payment.status \in {PaymentStatusCompleted, PaymentStatusFailed}
             THEN Returns(inv2, Nil)
             ELSE
             LET newStatus == simulatePaymentGatewayCheck(payment, rand)
                 inv3 == [inv2 EXCEPT !.newStatus = newStatus]
             IN IF newStatus # payment.status THEN Step("update", inv3)
                ELSE IF newStatus = PaymentStatusPending THEN Step("schedule", inv3)
                ELSE Returns(inv3, Nil)

\* CheckFetch that decides on the status the payment had when the task was
\* scheduled (pending) in place of the status it has just fetched.
CheckFetchTrustsCache(payload, store, dbFails, rand) ==
    LET inv0 == [NoInv EXCEPT !.handler = "check"]
        dec == Unmarshal(payload)
    IN IF dec.err # Nil THEN Returns(inv0, Wrap("json.Unmarshal failed", dec.err))
       ELSE
       LET got == GetPaymentByID(store, dec.id, dbFails)
           inv1 == Logged([inv0 EXCEPT !.id = dec.id], GetCall(dec.id, got.err))
       IN IF got.err # Nil THEN Returns(inv1, Wrap("failed to get payment", got.err))
          ELSE
          LET payment == [got.view EXCEPT !.status = PaymentStatusPending]
              inv2 == [inv1 EXCEPT !.fetched = Read(payment)]
          IN IF IsFinal(payment.status) THEN Returns(inv2, Nil)
             ELSE
             LET newStatus == simulatePaymentGatewayCheck(payment, rand)
                 inv3 == [inv2 EXCEPT !.newStatus = newStatus]
             IN IF newStatus # payment.status THEN Step("update", inv3)
                ELSE IF newStatus = PaymentStatusPending THEN Step("schedule", inv3)
                ELSE Returns(inv3, Nil)

\* CheckFetch without the final-state short-circuit.
CheckFetchWithoutShortCircuit(payload, store, dbFails, rand) ==
    LET inv0 == [NoInv EXCEPT !.handler = "check"]
        dec == Unmarshal(payload)
    IN IF dec.err # Nil THEN Returns(inv0, Wrap("json.Unmarshal failed", dec.err))
       ELSE
       LET got == GetPaymentByID(store, dec.id, dbFails)
           inv1 == Logged([inv0 EXCEPT !.id = dec.id], GetCall(dec.id, got.err))
       IN IF got.err # Nil THEN Returns(inv1, Wrap("failed to get payment", got.err))
          ELSE
          LET payment == got.view
              inv2 == [inv1 EXCEPT !.fetched = Read(payment)]
              newStatus == simulatePaymentGatewayCheck(payment, rand)
              inv3 == [inv2 EXCEPT !.newStatus = newStatus]
          IN IF newStatus # payment.status THEN Step("update", inv3)
             ELSE IF newStatus = PaymentStatusPending THEN Step("schedule", inv3)
             ELSE Returns(inv3, Nil)

\* HandleCheckPaymentStatus, from its entry to the resolution of the new
\* status: decode, fetch, final-state short-circuit, gateway check.
CheckFetch(payload, store, dbFails, rand) ==
    LET inv0 == [NoInv EXCEPT !.handler = "check"]
        dec == Unmarshal(payload)
    IN IF dec.err # Nil THEN Returns(inv0, Wrap("json.Unmarshal failed", dec.err))
       ELSE
       LET got == GetPaymentByID(store, dec.id, dbFails)
           inv1 == Logged([inv0 EXCEPT !.id = dec.id], GetCall(dec.id, got.err))
       IN IF got.err # Nil THEN Returns(inv1, Wrap("failed to get payment", got.err))
          ELSE
          LET payment == got.view
              inv2 == [inv1 EXCEPT !.fetched = Read(payment)]
          IN IF IsFinal(payment.status) THEN Returns(inv2, Nil)
             ELSE
             LET newStatus == simulatePaymentGatewayCheck(payment, rand)
                 inv3 == [inv2 EXCEPT !.newStatus = newStatus]
             IN IF newStatus # payment.status THEN Step("update", inv3)
                ELSE IF newStatus = PaymentStatusPending THEN Step("schedule", inv3)
                ELSE Returns(inv3, Nil)

\* The request HandleCheckPaymentStatus builds for the status it resolved.
CheckUpdateRequest(inv) ==
    UpdatePaymentRequest(inv.newStatus, "Status updated by worker at")

\* HandleCheckPaymentStatus, the store update of a changed status, up to the
\* point where UpdatePayment has fetched the row and changed its copy (the
\* invocation holds the copy in inv.row); a failure so far is returned.
CheckUpdate(inv, store, dbFails) ==
    LET updateReq == CheckUpdateRequest(inv)
        read == UpdatePaymentRead(store, inv.id, updateReq, dbFails)
    IN IF read.err # Nil
       THEN Returns(Logged(inv, UpdateCall(inv.id, updateReq, read.err)),
                    Wrap("failed to update payment status", read.err))
       ELSE Step("save", [inv EXCEPT !.row = read.row])

\* CheckSave that goes on to reschedule after any successful update.
CheckSaveThenReschedule(inv, store, db) ==
    LET updateReq == CheckUpdateRequest(inv)
        upd == UpdatePaymentWrite(store, inv.id, inv.row, db)
        inv1 == Logged([inv EXCEPT !.row = NoRow],
                       UpdateCall(inv.id, updateReq, upd.err))
    IN [store |-> upd.store,
        step |-> IF upd.err # Nil
                 THEN Returns(inv1, Wrap("failed to update payment status", upd.err))
                 ELSE Step("schedule", inv1)]

\* HandleCheckPaymentStatus, the rest of the store update: UpdatePayment saves
\* the copy and returns. Gives the step and the store after it.
CheckSave(inv, store, db) ==
    LET updateReq == CheckUpdateRequest(inv)
        upd == UpdatePaymentWrite(store, inv.id, inv.row, db)
        inv1 == Logged([inv EXCEPT !.row = NoRow],
                       UpdateCall(inv.id, updateReq, upd.err))
    IN [store |-> upd.store,
        step |-> IF upd.err # Nil
                 THEN Returns(inv1, Wrap("failed to update payment status", upd.err))
                 ELSE IF inv.newStatus = PaymentStatusPending
                 THEN Step("schedule", inv1)
                 ELSE Returns(inv1, Nil)]

\* CheckSchedule that submits no follow-up task.
CheckScheduleForgets(inv, tk, fails) ==
    [tasks |-> tk, step |-> Returns(inv, Nil)]

\* CheckSchedule that reports a failure after it has submitted the follow-up.
CheckScheduleThenFails(inv, tk, fails) ==
    LET sch == SchedulePaymentStatusCheck(tk, inv.id, PaymentCheckInterval, fails)
    IN [tasks |-> sch.tasks,
        step |-> Returns(Logged(inv, sch.call),
                         Wrap("failed to schedule next payment check", sch.err))]

\* CheckSchedule that returns the submission error.
CheckSchedulePropagates(inv, tk, fails) ==
    LET sch == SchedulePaymentStatusCheck(tk, inv.id, PaymentCheckInterval, fails)
    IN [tasks |-> sch.tasks,
        step |-> Returns(Logged(inv, sch.call),
                         IF sch.err # Nil
                         THEN Wrap("failed to schedule next payment check", sch.err)
                         ELSE Nil)]

\* HandleCheckPaymentStatus, the follow-up check of a payment still pending:
\* a failed submission is logged and the handler returns nil all the same.
CheckSchedule(inv, tk, fails) ==
    LET sch == SchedulePaymentStatusCheck(tk, inv.id, PaymentCheckInterval, fails)
    IN [tasks |-> sch.tasks, step |-> Returns(Logged(inv, sch.call), Nil)]

\* ProcessFetch that leaves a payment pending when processing fails.
ProcessFetchFailureStaysPending(payload, store, dbFails, rand) ==
    LET inv0 == [NoInv EXCEPT !.handler = "process"]
        dec == Unmarshal(payload)
    IN IF dec.err # Nil THEN Returns(inv0, Wrap("json.Unmarshal failed", dec.err))
       ELSE
       LET got == GetPaymentByID(store, dec.id, dbFails)
           inv1 == Logged([inv0 EXCEPT !.id = dec.id], GetCall(dec.id, got.err))
       IN IF got.err # Nil THEN Returns(inv1, Wrap("failed to get payment", got.err))
          ELSE
          LET payment == got.view
              success == simulatePaymentProcessing(payment, rand)
              newStatus == IF success THEN PaymentStatusCompleted
                           ELSE PaymentStatusPending
          IN Step("update", [inv1 EXCEPT !.newStatus = newStatus])

\* HandleProcessPayment, from its entry to the processing result.
ProcessFetch(payload, store, dbFails, rand) ==
    LET inv0 == [NoInv EXCEPT !.handler = "process"]
        dec == Unmarshal(payload)
    IN IF dec.err # Nil THEN Returns(inv0, Wrap("json.Unmarshal failed", dec.err))
       ELSE
       LET got == GetPaymentByID(store, dec.id, dbFails)
           inv1 == Logged([inv0 EXCEPT !.id = dec.id], GetCall(dec.id, got.err))
       IN IF got.err # Nil THEN Returns(inv1, Wrap("failed to get payment", got.err))
          ELSE
          LET payment == got.view
              success == simulatePaymentProcessing(payment, rand)
              newStatus == IF success THEN PaymentStatusCompleted
                           ELSE PaymentStatusFailed
          IN Step("update", [inv1 EXCEPT !.newStatus = newStatus])

\* The request HandleProcessPayment builds for the result of the processing.
ProcessUpdateRequest(inv) ==
    UpdatePaymentRequest(inv.newStatus, "Payment processed by worker at")

\* HandleProcessPayment, the store update up to the point where UpdatePayment
\* has fetched the row and changed its copy; a failure so far is returned.
ProcessUpdate(inv, store, dbFails) ==
    LET updateReq == ProcessUpdateRequest(inv)
        read == UpdatePaymentRead(store, inv.id, updateReq, dbFails)
    IN IF read.err # Nil
       THEN Returns(Logged(inv, UpdateCall(inv.id, updateReq, read.err)),
                    Wrap("failed to update payment", read.err))
       ELSE Step("save", [inv EXCEPT !.row = read.row])

\* ProcessSave that logs a failed save and returns nil.
ProcessSaveSwallowsError(inv, store, db) ==
    LET updateReq == ProcessUpdateRequest(inv)
        upd == UpdatePaymentWrite(store, inv.id, inv.row, db)
        inv1 == Logged([inv EXCEPT !.row = NoRow],
                       UpdateCall(inv.id, updateReq, upd.err))
    IN [store |-> upd.store, step |-> Returns(inv1, Nil)]

\* HandleProcessPayment, the rest of the store update: UpdatePayment saves
\* the copy and returns.
ProcessSave(inv, store, db) ==
    LET updateReq == ProcessUpdateRequest(inv)
        upd == UpdatePaymentWrite(store, inv.id, inv.row, db)
        inv1 == Logged([inv EXCEPT !.row = NoRow],
                       UpdateCall(inv.id, updateReq, upd.err))
    IN [store |-> upd.store,
        step |-> IF upd.err # Nil
                 THEN Returns(inv1, Wrap("failed to update payment", upd.err))
                 ELSE Returns(inv1, Nil)]

\* ProcessFinish that schedules a status check after a successful update.
ProcessFinishSchedulesCheck(inv, store, tk, db) ==
    LET r == ProcessSave(inv, store, db)
    IN IF r.step.inv.err # Nil
       THEN [store |-> r.store, tasks |-> tk, step |-> r.step]
       ELSE LET sch == SchedulePaymentStatusCheck(tk, inv.id, PaymentCheckInterval, FALSE)
            IN [store |-> r.store, tasks |-> sch.tasks,
                step |-> Returns(Logged(r.step.inv, sch.call), Nil)]

\* HandleProcessPayment from the save of the update to its return: the save,
\* the log line, the return; nothing is submitted to the queue.
ProcessFinish(inv, store, tk, db) ==
    LET r == ProcessSave(inv, store, db)
    IN [store |-> r.store, tasks |-> tk, step |-> r.step]

\* ------------------------------------------------------------- state
VARIABLES
    payments,   \* the payments table, by id
    tasks,      \* the task queue: the bag of its tasks
    runtime,    \* the worker process: start hook, task consumer, exit
    updates     \* the calls of paymentService.UpdatePayment made next to
                \* the worker, followed from their fetch to their save,
                \* and the calls of DeletePayment between lookup and delete

vars == <<payments, tasks, runtime, updates>>

\* Two callers of UpdatePayment on one payment at the same time (a handler of
\* a second worker process and an API request, say). pc: "idle", "read" (the
\* row is fetched and changed in memory, not saved yet), "done"; seen: the
\* number of saves executed when the call fetched; order: the callers whose
\* save was executed, in the order of execution.
Updaters == {"a", "b"}
NoUpdate ==
    [pc |-> "idle", id |-> 0, req |-> UpdatePaymentRequest("", NoDesc),
     row |-> NoRow, seen |-> 0, err |-> Nil]
\* The clients with a DELETE /payments/:id request in flight, between the
\* lookup and the delete of paymentService.DeletePayment. pc: "idle",
\* "found" (the payment was found, the delete is still to come).
Deleters == {"c", "d"}
NoDelete == [pc |-> "idle", id |-> 0]
NoUpdates ==
    [call |-> [u \in Updaters |-> NoUpdate], order |-> <<>>,
     deletes |-> [d \in Deleters |-> NoDelete]]

\* The worker process. hook: the hooks of Server.Start ("pending"; "ok":
\* OnStart has returned; "stopped": OnStop has run); consumer: the queue
\* server's consumption loop ("none": Run not called yet, "active", "failed",
\* "draining", "closed": shut down with no handler in flight, "aborted": ended
\* with handlers left in flight, or with the process); exit: how the process
\* ended ("none": it runs; "ok": main returned, "fatal": logger.Fatal);
\* configured: worker.concurrency of the configuration; concurrency: the
\* number of handlers the server built from it runs at a time.
Runtime(hook, consumer, exit) ==
    [hook |-> hook, consumer |-> consumer, exit |-> exit,
     configured |-> Concurrency, concurrency |-> Concurrency]
\* The least value tried for worker.concurrency: the configuration is an int
\* that nothing validates (a value below zero makes the same server as zero).
MinConcurrency == 0
\* The CPUs the process may use (runtime.NumCPU of the machine it runs on).
CPUs == 1..Concurrency
\* The workers of asynq.NewServer(redisOpt, asynq.Config{Concurrency: n}): n,
\* and one per CPU when n is zero or less.
ServerConcurrency(n, cpus) == IF n <= 0 THEN cpus ELSE n
\* The server configured with worker.concurrency = n on a machine of cpus CPUs.
Configured(rt, n, cpus) ==
    [rt EXCEPT !.configured = n, !.concurrency = ServerConcurrency(n, cpus)]
RuntimeNew == Runtime("pending", "none", "none")
RuntimeServing == Runtime("ok", "active", "none")

\* The process runs and its server takes tasks from the queues.
Consuming == runtime.exit = "none" /\ runtime.consumer = "active"
\* The process runs and handlers in flight go on (serving or draining).
Alive == runtime.exit = "none" /\ runtime.consumer \in {"active", "draining"}

\* The worker is up and serving.
Init ==
    /\ payments = [p \in PaymentIds |-> NoRow]
    /\ tasks = EmptyBag
    /\ runtime = RuntimeServing
    /\ updates = NoUpdates

Tasks == BagToSet(tasks)

\* The tasks a handler invocation holds: running, or returned and not yet
\* settled by the queue.
IsActive(t) == t.state = "active"
NumActive == BagCardinality([t \in {x \in Tasks : IsActive(x)} |-> tasks[t]])

\* The handler of task t takes the step `step` on the queue `tk`.
Advance(t, tk, step) ==
    /\ Alive
    /\ tasks' = Replace(tk, t, [t EXCEPT !.pc = step.pc, !.inv = step.inv])
    /\ UNCHANGED <<runtime, updates>>

\* ------------------------------------------------------------ actions
\* dto.CreatePaymentRequest
CreatePaymentRequest(amount, currency, description, userID) ==
    [amount |-> amount, currency |-> currency, description |-> description,
     userID |-> userID]

\* paymentService.CreatePayment, the entity it builds from the request.
NewPayment(req) ==
    [exists |-> TRUE, amount |-> req.amount, currency |-> req.currency,
     status |-> PaymentStatusPending, description |-> req.description,
     userID |-> req.userID, age |-> 0, updated |-> 0, deleted |-> FALSE]

\* paymentRepository.Create: the row gets the next id of the table, the
\* least id that no row had yet.
RepoCreate(store, row) ==
    LET free == {id \in DOMAIN store :
                    store[id] = NoRow /\ \A j \in DOMAIN store : j < id => store[j] # NoRow}
    IN IF free = {} THEN store
       ELSE [store EXCEPT ![CHOOSE id \in free : TRUE] = row]

\* paymentService.CreatePayment with a request of Requests: a new pending
\* row with the next id.
CreatePaymentOf(Requests) ==
    /\ \E id \in DOMAIN payments : payments[id] = NoRow
    /\ \E req \in Requests : payments' = RepoCreate(payments, NewPayment(req))
    /\ UNCHANGED <<tasks, runtime, updates>>

CreatePayment ==
    CreatePaymentOf({CreatePaymentRequest(100, "USD", "client note", 1)})

\* The requests a client sends with PUT /payments/:id: a cancellation that
\* gives no description, and a reset to pending that gives one.
ApiRequests ==
    { UpdatePaymentRequest(PaymentStatusCanceled, ""),
      UpdatePaymentRequest(PaymentStatusPending, "client note") }

\* PaymentHandler.UpdatePayment (PUT /payments/:id), up to the point where
\* the service has fetched the row and changed its copy: the request is in
\* flight as the call "a" of `updates`. A request that fails so far is
\* answered at once and leaves nothing behind.
ApiUpdatePaymentOf(Requests) ==
    /\ updates.call["a"].pc = "idle"
    /\ \E id \in DOMAIN payments, req \in Requests, dbFails \in BOOLEAN :
          LET read == UpdatePaymentRead(payments, id, req, dbFails)
          IN updates' =
                IF read.err # Nil THEN updates
                ELSE [updates EXCEPT !.call["a"] =
                        [pc |-> "read", id |-> id, req |-> req, row |-> read.row,
                         seen |-> 0, err |-> Nil]]
    /\ UNCHANGED <<payments, tasks, runtime>>

ApiUpdatePayment == ApiUpdatePaymentOf(ApiRequests)

\* PaymentHandler.UpdatePayment, the rest: the service saves its copy and the
\* request is answered.
ApiUpdatePaymentSave ==
    /\ updates.call["a"].pc = "read"
    /\ \E db \in SaveOutcomes :
          payments' = UpdatePaymentWrite(payments, updates.call["a"].id,
                                         updates.call["a"].row, db).store
    /\ updates' = [updates EXCEPT !.call["a"] = NoUpdate]
    /\ UNCHANGED <<tasks, runtime>>

\* PaymentHandler.DeletePayment (DELETE /payments/:id) of client d, up to the
\* point where the service has found the payment. A request that fails so
\* far is answered at once and leaves nothing behind.
ApiDeletePaymentBy(d) ==
    /\ updates.deletes[d].pc = "idle"
    /\ \E id \in DOMAIN payments, dbFails \in BOOLEAN :
          updates' =
             IF DeletePaymentFind(payments, id, dbFails).err # Nil THEN updates
             ELSE [updates EXCEPT !.deletes[d] = [pc |-> "found", id |-> id]]
    /\ UNCHANGED <<payments, tasks, runtime>>

\* PaymentHandler.DeletePayment of client d, the rest: the service deletes by
\* id and the request is answered (with success also when the delete
\* matched no row, the payment having been deleted since the lookup).
ApiDeletePaymentRemoveBy(d) ==
    /\ updates.deletes[d].pc = "found"
    /\ \E dbFails \in BOOLEAN :
          payments' = DeletePaymentRemove(payments, updates.deletes[d].id,
                                          dbFails).store
    /\ updates' = [updates EXCEPT !.deletes[d] = NoDelete]
    /\ UNCHANGED <<tasks, runtime>>

ApiDeletePayment == \E d \in Deleters : ApiDeletePaymentBy(d)
ApiDeletePaymentRemove == \E d \in Deleters : ApiDeletePaymentRemoveBy(d)

\* A producer schedules a status check of a payment.
ScheduleCheck ==
    /\ BagCardinality(tasks) < MaxTasks
    /\ \E id \in PaymentIds, delay \in {0, PaymentCheckInterval} :
          tasks' = SchedulePaymentStatusCheck(tasks, id, delay, FALSE).tasks
    /\ UNCHANGED <<payments, runtime, updates>>

\* A producer schedules the processing of a payment.
ScheduleProcessing ==
    /\ BagCardinality(tasks) < MaxTasks
    /\ \E id \in PaymentIds :
          tasks' = SchedulePaymentProcessing(tasks, id, FALSE).tasks
    /\ UNCHANGED <<payments, runtime, updates>>

\* A task whose payload does not decode reaches the queue.
EnqueueMalformed ==
    /\ BagCardinality(tasks) < MaxTasks
    /\ \E payload \in MalformedPayloads :
          \/ tasks' = Enqueue(tasks, NewTask(TypeCheckPaymentStatus, payload,
                                  "default", 0, RetryMaxAttempts), FALSE).tasks
          \/ tasks' = Enqueue(tasks, NewTask(TypeProcessPayment, payload,
                                  "critical", 0, RetryMaxAttempts), FALSE).tasks
    /\ UNCHANGED <<payments, runtime, updates>>

\* A task of another producer whose payload decodes reaches the queue.
EnqueueForeign ==
    /\ BagCardinality(tasks) < MaxTasks
    /\ \E payload \in ForeignPayloads :
          \/ tasks' = Enqueue(tasks, NewTask(TypeCheckPaymentStatus, payload,
                                  "default", 0, RetryMaxAttempts), FALSE).tasks
          \/ tasks' = Enqueue(tasks, NewTask(TypeProcessPayment, payload,
                                  "critical", 0, RetryMaxAttempts), FALSE).tasks
    /\ UNCHANGED <<payments, runtime, updates>>

\* One time unit passes: every row, and every copy of a row that a call of
\* UpdatePayment holds, is one unit further from its timestamps.
Older(row) ==
    IF ~row.exists THEN row
    ELSE [row EXCEPT !.age = Min(@ + 1, AgeCap),
                     !.updated = Min(@ + 1, UpdatedCap)]
Elapse(t) == [t EXCEPT !.remaining = Max(@ - 1, 0), !.inv.row = Older(@)]
Tick ==
    /\ payments' = [p \in DOMAIN payments |-> Older(payments[p])]
    /\ tasks' = BagOfAll(Elapse, tasks)
    /\ updates' = [updates EXCEPT
                     !.call = [u \in Updaters |-> [@[u] EXCEPT !.row = Older(@)]]]
    /\ UNCHANGED runtime

\* migration.Server.DropTables (cmd/migration -action=drop, run next to the
\* service): the payments table is dropped with every row it holds.
DropTables ==
    /\ ~TableDropped(payments)
    /\ payments' = [p \in DOMAIN payments |-> Dropped]
    /\ UNCHANGED <<tasks, runtime, updates>>

\* migration.Server.RunMigrations (cmd/migration -action=migrate): AutoMigrate
\* creates the table that is missing, empty and with its ids starting over;
\* a table that exists stays as it is.
RunMigrations ==
    /\ TableDropped(payments)
    /\ payments' = [p \in DOMAIN payments |-> NoRow]
    /\ UNCHANGED <<tasks, runtime, updates>>

\* testutil.CleanDB: DELETE FROM payments removes every row of the table,
\* the soft-deleted ones too.
CleanDB ==
    /\ ~TableDropped(payments)
    /\ \E p \in DOMAIN payments : payments[p].exists
    /\ payments' = [p \in DOMAIN payments |->
                       IF payments[p] = NoRow THEN NoRow ELSE Removed]
    /\ UNCHANGED <<tasks, runtime, updates>>

\* A delayed task falls due, or a failed task's retry delay is over.
Promote(t) ==
    /\ Consuming
    /\ \/ t.state = "scheduled" /\ t.remaining = 0
       \/ t.state = "retry"
    /\ tasks' = Replace(tasks, t, [t EXCEPT !.state = "pending"])
    /\ UNCHANGED <<payments, runtime, updates>>

\* A configuration that sets asynq.Config.StrictPriority.
StrictPrioritySet == TRUE
\* asynq.Config.StrictPriority as NewServer builds the configuration: the
\* field is left out, so it has its zero value.
StrictPriority == FALSE

\* The server may take the ready task t next. For every task it takes the
\* server draws an order of its queues at random, a queue of greater weight
\* more likely ahead, and takes from the first queue of that order that holds
\* a ready task: any queue with a weight above zero may come first. Under
\* strict priority the order is always that of the weights, and a queue is
\* served only when no queue of greater weight holds a ready task.
CanServe(tk, t) ==
    /\ t.queue \in Queues
    /\ QueueWeight(t.queue) > 0
    /\ StrictPriority =>
          \A u \in BagToSet(tk) :
             (u.state = "pending" /\ u.queue \in Queues) =>
                QueueWeight(u.queue) <= QueueWeight(t.queue)

\* The worker runtime hands a ready task to its handler: a worker of the
\* server is free and the draw of the queues puts the task's queue first.
Dispatch(t) ==
    /\ Consuming
    /\ t.state = "pending"
    /\ CanServe(tasks, t)
    /\ NumActive < runtime.concurrency
    /\ tasks' = Replace(tasks, t, [t EXCEPT !.state = "active", !.pc = "start"])
    /\ UNCHANGED <<payments, runtime, updates>>

\* The handler of task t has returned: the queue acknowledges, redelivers or
\* dead-letters the task.
Settle(t) ==
    /\ Alive
    /\ t.state = "active" /\ t.pc = "return"
    /\ tasks' = Ack(tasks, t, t.inv.err)
    /\ UNCHANGED <<payments, runtime, updates>>

\* RegisterHandlers with the two handlers under each other's task type.
RegisterHandlersSwapped(typ) ==
    CASE typ = TypeCheckPaymentStatus -> "process"
      [] typ = TypeProcessPayment -> "check"
      [] OTHER -> "none"

\* Server.RegisterHandlers: the handler the server's mux holds for a task
\* type ("check": HandleCheckPaymentStatus, "process": HandleProcessPayment).
RegisterHandlers(typ) ==
    CASE typ = TypeCheckPaymentStatus -> "check"
      [] typ = TypeProcessPayment -> "process"
      [] OTHER -> "none"

\* The handler steps: the mux routes a task to the handler registered for
\* its type. DbFails, Faults, Fails: the outcomes the store and the queue may
\* give the call the step makes.
CheckStartStep(t, DbFails) ==
    /\ t.state = "active" /\ t.pc = "start"
    /\ RegisterHandlers(t.typ) = "check"
    /\ \E dbFails \in DbFails, rand \in RandValues :
          Advance(t, tasks, CheckFetch(t.payload, payments, dbFails, rand))
    /\ UNCHANGED <<payments, runtime, updates>>

CheckUpdateStep(t, DbFails) ==
    /\ t.state = "active" /\ t.pc = "update"
    /\ RegisterHandlers(t.typ) = "check"
    /\ \E dbFails \in DbFails :
          Advance(t, tasks, CheckUpdate(t.inv, payments, dbFails))
    /\ UNCHANGED <<payments, runtime, updates>>

CheckSaveStep(t, Outcomes) ==
    /\ t.state = "active" /\ t.pc = "save"
    /\ RegisterHandlers(t.typ) = "check"
    /\ \E db \in Outcomes :
          LET r == CheckSave(t.inv, payments, db)
          IN /\ payments' = r.store
             /\ Advance(t, tasks, r.step)

CheckScheduleStep(t, Fails) ==
    /\ t.state = "active" /\ t.pc = "schedule"
    /\ RegisterHandlers(t.typ) = "check"
    /\ \E fails \in Fails :
          LET r == CheckSchedule(t.inv, tasks, fails)
          IN Advance(t, r.tasks, r.step)
    /\ UNCHANGED <<payments, runtime, updates>>

HandleCheckStart(t) == CheckStartStep(t, BOOLEAN)
HandleCheckUpdate(t) == CheckUpdateStep(t, BOOLEAN)
HandleCheckSave(t) == CheckSaveStep(t, SaveOutcomes)
HandleCheckSchedule(t) == CheckScheduleStep(t, BOOLEAN)

HandleProcessStart(t) ==
    /\ t.state = "active" /\ t.pc = "start"
    /\ RegisterHandlers(t.typ) = "process"
    /\ \E dbFails \in BOOLEAN, rand \in RandValues :
          Advance(t, tasks, ProcessFetch(t.payload, payments, dbFails, rand))
    /\ UNCHANGED <<payments, runtime, updates>>

HandleProcessUpdate(t) ==
    /\ t.state = "active" /\ t.pc = "update"
    /\ RegisterHandlers(t.typ) = "process"
    /\ \E dbFails \in BOOLEAN :
          Advance(t, tasks, ProcessUpdate(t.inv, payments, dbFails))
    /\ UNCHANGED <<payments, runtime, updates>>

HandleProcessSave(t) ==
    /\ t.state = "active" /\ t.pc = "save"
    /\ RegisterHandlers(t.typ) = "process"
    /\ \E db \in SaveOutcomes :
          LET r == ProcessFinish(t.inv, payments, tasks, db)
          IN /\ payments' = r.store
             /\ Advance(t, r.tasks, r.step)

\* A step of a lifecycle-worker handler.
WorkerStep(t) ==
    \/ HandleCheckStart(t)
    \/ HandleCheckUpdate(t)
    \/ HandleCheckSave(t)
    \/ HandleCheckSchedule(t)
    \/ HandleProcessStart(t)
    \/ HandleProcessUpdate(t)
    \/ HandleProcessSave(t)

\* The worker with the producers of its tasks, on a table whose payments
\* clients create and delete.
Next ==
    \/ CreatePayment
    \/ ApiDeletePaymentBy("c")
    \/ ApiDeletePaymentRemoveBy("c")
    \/ ScheduleCheck
    \/ ScheduleProcessing
    \/ Tick
    \/ \E t \in Tasks : Promote(t)
    \/ \E t \in Tasks : Dispatch(t)
    \/ \E t \in Tasks : Settle(t)
    \/ \E t \in Tasks : HandleCheckStart(t)
    \/ \E t \in Tasks : HandleCheckUpdate(t)
    \/ \E t \in Tasks : HandleCheckSave(t)
    \/ \E t \in Tasks : HandleCheckSchedule(t)
    \/ \E t \in Tasks : HandleProcessStart(t)
    \/ \E t \in Tasks : HandleProcessUpdate(t)
    \/ \E t \in Tasks : HandleProcessSave(t)

Spec == Init /\ [][Next]_vars

\* ------------------------------------- the migration tool at work
\* The service and the worker while the migration tool (cmd/migration) and
\* the test utility work on their database: the table can be dropped and
\* made anew, and its rows removed, at any point of a handler's run.
MigrationNext ==
    \/ DropTables
    \/ RunMigrations
    \/ CleanDB
    \/ Next

MigrationSpec == Init /\ [][MigrationNext]_vars

\* ------------------------------------------ the worker next to the API
\* The worker on a table whose payments clients create, update and delete
\* while the handlers run; a producer submits a task to an empty queue (the
\* follow-up of a status check may join its predecessor).
ClientScheduleCheck == tasks = EmptyBag /\ ScheduleCheck
ClientScheduleProcessing == tasks = EmptyBag /\ ScheduleProcessing

ClientNext ==
    \/ CreatePayment
    \/ ApiUpdatePayment
    \/ ApiUpdatePaymentSave
    \/ ApiDeletePayment
    \/ ApiDeletePaymentRemove
    \/ ClientScheduleCheck
    \/ ClientScheduleProcessing
    \/ Tick
    \/ \E t \in Tasks : Promote(t)
    \/ \E t \in Tasks : Dispatch(t)
    \/ \E t \in Tasks : Settle(t)
    \/ \E t \in Tasks : HandleCheckStart(t)
    \/ \E t \in Tasks : HandleCheckUpdate(t)
    \/ \E t \in Tasks : HandleCheckSave(t)
    \/ \E t \in Tasks : HandleCheckSchedule(t)
    \/ \E t \in Tasks : HandleProcessStart(t)
    \/ \E t \in Tasks : HandleProcessUpdate(t)
    \/ \E t \in Tasks : HandleProcessSave(t)

ClientSpec == Init /\ [][ClientNext]_vars

\* --------------------------------------------- payloads of any shape
\* The handlers on a queue that also receives tasks whose payload does not
\* decode, next to the tasks of the worker's own schedulers.
DecodeNext ==
    \/ CreatePayment
    \/ ScheduleCheck
    \/ ScheduleProcessing
    \/ EnqueueMalformed
    \/ EnqueueForeign
    \/ Tick
    \/ \E t \in Tasks : Promote(t)
    \/ \E t \in Tasks : Dispatch(t)
    \/ \E t \in Tasks : Settle(t)
    \/ \E t \in Tasks : HandleCheckStart(t)
    \/ \E t \in Tasks : HandleCheckUpdate(t)
    \/ \E t \in Tasks : HandleCheckSave(t)
    \/ \E t \in Tasks : HandleCheckSchedule(t)
    \/ \E t \in Tasks : HandleProcessStart(t)
    \/ \E t \in Tasks : HandleProcessUpdate(t)
    \/ \E t \in Tasks : HandleProcessSave(t)

DecodeSpec == Init /\ [][DecodeNext]_vars

\* ------------------------------------------- status polling, no failures
\* One polling chain at a time, on a store and a queue whose calls succeed:
\* a producer starts a status check only on an empty queue, and the queue
\* settles a returned task before time moves on.
LiveScheduleCheck == tasks = EmptyBag /\ ScheduleCheck
LiveTick == (\A t \in Tasks : ~(t.state = "active" /\ t.pc = "return")) /\ Tick
LiveCheckStart(t) == CheckStartStep(t, {FALSE})
LiveCheckUpdate(t) == CheckUpdateStep(t, {FALSE})
LiveCheckSave(t) == CheckSaveStep(t, {"ok"})
LiveCheckSchedule(t) == CheckScheduleStep(t, {FALSE})

\* The gateway check resolves a status other than pending.
ResolveFinal(t) ==
    /\ LiveCheckStart(t)
    /\ \E t2 \in BagToSet(tasks') :
          /\ CopiesIn(t2, tasks') > CopiesIn(t2, tasks)
          /\ t2.pc = "update"

LiveNext ==
    \/ CreatePayment
    \/ LiveScheduleCheck
    \/ LiveTick
    \/ \E t \in Tasks : Promote(t)
    \/ \E t \in Tasks : Dispatch(t)
    \/ \E t \in Tasks : Settle(t)
    \/ \E t \in Tasks : LiveCheckStart(t)
    \/ \E t \in Tasks : LiveCheckUpdate(t)
    \/ \E t \in Tasks : LiveCheckSave(t)
    \/ \E t \in Tasks : LiveCheckSchedule(t)

\* The queue and the clock make progress, and the gateway's draw is fair: a
\* check that can resolve a final status again and again eventually does.
LiveFairness ==
    /\ WF_vars(LiveTick)
    /\ WF_vars(\E t \in Tasks : Promote(t))
    /\ WF_vars(\E t \in Tasks : Dispatch(t))
    /\ WF_vars(\E t \in Tasks : Settle(t))
    /\ WF_vars(\E t \in Tasks : LiveCheckStart(t))
    /\ WF_vars(\E t \in Tasks : LiveCheckUpdate(t))
    /\ WF_vars(\E t \in Tasks : LiveCheckSave(t))
    /\ WF_vars(\E t \in Tasks : LiveCheckSchedule(t))
    /\ SF_vars(\E t \in Tasks : ResolveFinal(t))

LiveSpec == Init /\ [][LiveNext]_vars /\ LiveFairness

\* ----------------------------------------- the configured concurrency
\* The system with worker.concurrency set to any value from MinConcurrency
\* up to the bound, on a machine of any number of CPUs.
ConfigInit ==
    /\ payments = [p \in PaymentIds |-> NoRow]
    /\ tasks = EmptyBag
    /\ runtime \in {Configured(RuntimeServing, n, cpus) :
                       n \in MinConcurrency..Concurrency, cpus \in CPUs}
    /\ updates = NoUpdates

ConfigSpec == ConfigInit /\ [][Next]_vars

\* ------------------------------------------------ one polling chain
\* One call of SchedulePaymentStatusCheck on an empty queue starts a chain of
\* status checks; the store and the queue may fail, failed tasks are retried.
ChainNext ==
    \/ CreatePayment
    \/ ApiDeletePayment
    \/ ApiDeletePaymentRemove
    \/ LiveScheduleCheck
    \/ Tick
    \/ \E t \in Tasks : Promote(t)
    \/ \E t \in Tasks : Dispatch(t)
    \/ \E t \in Tasks : Settle(t)
    \/ \E t \in Tasks : HandleCheckStart(t)
    \/ \E t \in Tasks : HandleCheckUpdate(t)
    \/ \E t \in Tasks : HandleCheckSave(t)
    \/ \E t \in Tasks : HandleCheckSchedule(t)

ChainSpec == Init /\ [][ChainNext]_vars

\* ------------------------------------------- status checks only
\* Producers schedule status checks and nothing else, also several for one
\* payment; no process task, no update through the API.
ChecksNext ==
    \/ CreatePayment
    \/ ApiDeletePayment
    \/ ApiDeletePaymentRemove
    \/ ScheduleCheck
    \/ Tick
    \/ \E t \in Tasks : Promote(t)
    \/ \E t \in Tasks : Dispatch(t)
    \/ \E t \in Tasks : Settle(t)
    \/ \E t \in Tasks : HandleCheckStart(t)
    \/ \E t \in Tasks : HandleCheckUpdate(t)
    \/ \E t \in Tasks : HandleCheckSave(t)
    \/ \E t \in Tasks : HandleCheckSchedule(t)

ChecksSpec == Init /\ [][ChecksNext]_vars

\* ------------------------------------------------ polling to its end
\* Status checks only, with a store and a queue that may fail; producers
\* schedule checks, also several for one payment, but none for a payment whose
\* stored status is final. The clock, the queue and the handlers make
\* progress.
ScheduleCheckOfPending ==
    /\ BagCardinality(tasks) < MaxTasks
    /\ \E id \in PaymentIds, delay \in {0, PaymentCheckInterval} :
          /\ ~(payments[id].exists /\ IsFinal(payments[id].status))
          /\ tasks' = SchedulePaymentStatusCheck(tasks, id, delay, FALSE).tasks
    /\ UNCHANGED <<payments, runtime, updates>>

PollNext ==
    \/ CreatePayment
    \/ ApiDeletePayment
    \/ ApiDeletePaymentRemove
    \/ ScheduleCheckOfPending
    \/ Tick
    \/ \E t \in Tasks : Promote(t)
    \/ \E t \in Tasks : Dispatch(t)
    \/ \E t \in Tasks : Settle(t)
    \/ \E t \in Tasks : HandleCheckStart(t)
    \/ \E t \in Tasks : HandleCheckUpdate(t)
    \/ \E t \in Tasks : HandleCheckSave(t)
    \/ \E t \in Tasks : HandleCheckSchedule(t)

PollFairness ==
    /\ WF_vars(Tick)
    /\ WF_vars(\E t \in Tasks : Promote(t))
    /\ WF_vars(\E t \in Tasks : Dispatch(t))
    /\ WF_vars(\E t \in Tasks : Settle(t))
    /\ WF_vars(\E t \in Tasks : HandleCheckStart(t))
    /\ WF_vars(\E t \in Tasks : HandleCheckUpdate(t))
    /\ WF_vars(\E t \in Tasks : HandleCheckSave(t))
    /\ WF_vars(\E t \in Tasks : HandleCheckSchedule(t))

PollSpec == Init /\ [][PollNext]_vars /\ PollFairness

\* -------------------------------------------- the two-speed workload
\* One chain of status checks on the default queue next to the process tasks
\* that producers keep putting on the critical queue, on a server with fewer
\* workers than there can be tasks: the ready tasks compete for each worker
\* that falls free.
StartCheck ==
    /\ \A t \in Tasks : t.typ # TypeCheckPaymentStatus
    /\ ScheduleCheck
DispatchDefault == \E t \in Tasks : t.queue = "default" /\ Dispatch(t)
DispatchCritical == \E t \in Tasks : t.queue = "critical" /\ Dispatch(t)

WeightedNext ==
    \/ CreatePayment
    \/ StartCheck
    \/ ScheduleProcessing
    \/ Tick
    \/ \E t \in Tasks : Promote(t)
    \/ \E t \in Tasks : Dispatch(t)
    \/ \E t \in Tasks : Settle(t)
    \/ \E t \in Tasks : HandleCheckStart(t)
    \/ \E t \in Tasks : HandleCheckUpdate(t)
    \/ \E t \in Tasks : HandleCheckSave(t)
    \/ \E t \in Tasks : HandleCheckSchedule(t)
    \/ \E t \in Tasks : HandleProcessStart(t)
    \/ \E t \in Tasks : HandleProcessUpdate(t)
    \/ \E t \in Tasks : HandleProcessSave(t)

\* The server has MaxTasks - 1 workers.
WeightedInit ==
    /\ payments = [p \in PaymentIds |-> NoRow]
    /\ tasks = EmptyBag
    /\ runtime = Configured(RuntimeServing, MaxTasks - 1, 1)
    /\ updates = NoUpdates

\* The dispatcher is fair: of the draws it makes while the default queue
\* holds a ready task, which are as many as workers fall free, it does not
\* put another queue first every time (the default queue's weight is above
\* zero, so each draw puts it first with a chance above zero). A worker that
\* is free does not idle while a task is ready, and a handler that was
\* started runs to its return.
WeightedFairness ==
    /\ SF_vars(DispatchDefault)
    /\ WF_vars(DispatchCritical)
    /\ WF_vars(\E t \in Tasks : Settle(t))
    /\ WF_vars(\E t \in Tasks : HandleCheckStart(t))
    /\ WF_vars(\E t \in Tasks : HandleCheckUpdate(t))
    /\ WF_vars(\E t \in Tasks : HandleCheckSave(t))
    /\ WF_vars(\E t \in Tasks : HandleCheckSchedule(t))
    /\ WF_vars(\E t \in Tasks : HandleProcessStart(t))
    /\ WF_vars(\E t \in Tasks : HandleProcessUpdate(t))
    /\ WF_vars(\E t \in Tasks : HandleProcessSave(t))

WeightedSpec == WeightedInit /\ [][WeightedNext]_vars /\ WeightedFairness

\* ------------------------------------------ two updates of one payment
\* The requests the callers make: a status of the enumeration, with or
\* without a description.
RaceRequests ==
    {UpdatePaymentRequest(status, text) :
        status \in {PaymentStatusPending, PaymentStatusCompleted,
                    PaymentStatusFailed, PaymentStatusCanceled},
        text \in {"", "Status updated by worker at"}}

\* Caller u enters UpdatePayment with a request of Requests: the fetch, the
\* validation and the changes on the fetched copy.
BeginUpdateOf(u, Requests) ==
    /\ updates.call[u].pc = "idle"
    /\ \E id \in DOMAIN payments, req \in Requests, dbFails \in BOOLEAN :
          LET read == UpdatePaymentRead(payments, id, req, dbFails)
          IN updates' = [updates EXCEPT !.call[u] =
                 [pc |-> IF read.err # Nil THEN "done" ELSE "read",
                  id |-> id, req |-> req, row |-> read.row,
                  seen |-> Len(updates.order), err |-> read.err]]
    /\ UNCHANGED <<payments, tasks, runtime>>

BeginUpdate(u) == BeginUpdateOf(u, RaceRequests)

\* Caller u goes on: the save of its copy, and the return.
WriteUpdate(u) ==
    /\ updates.call[u].pc = "read"
    /\ \E db \in SaveOutcomes :
          LET c == updates.call[u]
              w == UpdatePaymentWrite(payments, c.id, c.row, db)
          IN /\ payments' = w.store
             /\ updates' = [updates EXCEPT
                               !.call[u].pc = "done",
                               !.call[u].err = w.err,
                               !.order = IF w.err = Nil THEN Append(@, u) ELSE @]
    /\ UNCHANGED <<tasks, runtime>>

RaceNext ==
    \/ CreatePayment
    \/ ApiDeletePayment
    \/ ApiDeletePaymentRemove
    \/ Tick
    \/ \E u \in Updaters : BeginUpdate(u)
    \/ \E u \in Updaters : WriteUpdate(u)

RaceSpec == Init /\ [][RaceNext]_vars

\* ------------------------------------------------- the payment service
\* The service alone, on a table of more than one payment: clients create
\* payments of different amounts, currencies and owners, update them and
\* delete them, while a worker's handler makes one update of its own.
StoreIds == 1..(MaxPayments + 1)
StoreRequests ==
    { CreatePaymentRequest(100, "USD", "client note", 1),
      CreatePaymentRequest(250, "EUR", "second note", 2) }
StoreUpdateRequests ==
    { UpdatePaymentRequest(PaymentStatusCanceled, "") }
StoreWorkerRequests ==
    { UpdatePaymentRequest(PaymentStatusCompleted, "Status updated by worker at") }

StoreInit ==
    /\ payments = [p \in StoreIds |-> NoRow]
    /\ tasks = EmptyBag
    /\ runtime = RuntimeServing
    /\ updates = NoUpdates

StoreNext ==
    \/ CreatePaymentOf(StoreRequests)
    \/ ApiUpdatePaymentOf(StoreUpdateRequests)
    \/ ApiUpdatePaymentSave
    \/ BeginUpdateOf("b", StoreWorkerRequests)
    \/ WriteUpdate("b")
    \/ ApiDeletePaymentBy("c")
    \/ ApiDeletePaymentRemoveBy("c")
    \/ Tick

StoreSpec == StoreInit /\ [][StoreNext]_vars

\* --------------------------------------------- the worker's lifecycle
\* Server.Start, OnStart: the hook launches the consumption loop in a
\* goroutine and reports success at once.
OnStart ==
    /\ runtime = RuntimeNew
    /\ runtime' = [runtime EXCEPT !.hook = "ok"]
    /\ UNCHANGED <<payments, tasks, updates>>

\* RunServer that logs the failure of Run as an error and goes on.
RunServerLogsError(rt, fails) ==
    IF fails THEN [rt EXCEPT !.consumer = "failed"]
    ELSE [rt EXCEPT !.consumer = "active"]

\* The goroutine of OnStart: s.server.Run(s.mux); an error is logged with
\* Fatal, which ends the process.
RunServer(rt, fails) ==
    IF fails THEN [rt EXCEPT !.consumer = "failed", !.exit = "fatal"]
    ELSE [rt EXCEPT !.consumer = "active"]

\* The goroutine is scheduled, before or after the stop hook: nothing makes
\* it wait for, or give way to, OnStop.
StartConsumer ==
    /\ runtime.exit = "none" /\ runtime.hook \in {"ok", "stopped"}
    /\ runtime.consumer = "none"
    /\ \E fails \in BOOLEAN : runtime' = RunServer(runtime, fails)
    /\ UNCHANGED <<payments, tasks, updates>>

\* Server.Start, OnStop: s.server.Shutdown(). On a running server: it takes no
\* more tasks and waits for the handlers in flight. On a server whose Run has
\* not been called yet: nothing to shut down, Shutdown returns at once and
\* leaves the server as it is.
OnStop(rt) ==
    IF rt.consumer = "active"
    THEN [rt EXCEPT !.hook = "stopped", !.consumer = "draining"]
    ELSE [rt EXCEPT !.hook = "stopped"]

\* main: a shutdown signal arrives and app.Stop runs the stop hook.
ShutdownSignal ==
    /\ runtime.exit = "none" /\ runtime.hook = "ok"
    /\ runtime.consumer \in {"none", "active"}
    /\ runtime' = OnStop(runtime)
    /\ UNCHANGED <<payments, tasks, updates>>

\* main, after a stop hook that found no server to shut down: app.Stop has
\* returned nil, main prints its last line and returns. The process ends,
\* and with it the server that the goroutine has started meanwhile, and
\* the handlers it has in flight.
MainReturns ==
    /\ runtime.exit = "none" /\ runtime.hook = "stopped"
    /\ runtime.consumer \in {"none", "active"}
    /\ runtime' = [runtime EXCEPT
                     !.consumer = IF @ = "active" THEN "aborted" ELSE @,
                     !.exit = "ok"]
    /\ UNCHANGED <<payments, tasks, updates>>

\* Shutdown returns with no handler in flight; app.Stop returns nil and main
\* ends.
Drained ==
    /\ runtime.exit = "none" /\ runtime.consumer = "draining"
    /\ NumActive = 0
    /\ runtime' = [runtime EXCEPT !.consumer = "closed", !.exit = "ok"]
    /\ UNCHANGED <<payments, tasks, updates>>

\* The server's shutdown timeout elapses with handlers still in flight:
\* Shutdown gives up waiting and returns, the stop hook returns nil, and
\* app.Stop, called without a deadline, returns nil: main ends normally, and
\* the handlers in flight end with the process.
ShutdownTimeout ==
    /\ runtime.exit = "none" /\ runtime.consumer = "draining"
    /\ NumActive > 0
    /\ runtime' = [runtime EXCEPT !.consumer = "aborted", !.exit = "ok"]
    /\ UNCHANGED <<payments, tasks, updates>>

\* The worker process from its start to its end, with the producers of tasks.
LifecycleInit ==
    /\ payments = [p \in PaymentIds |-> NoRow]
    /\ tasks = EmptyBag
    /\ runtime = RuntimeNew
    /\ updates = NoUpdates

LifecycleNext ==
    \/ OnStart
    \/ StartConsumer
    \/ ShutdownSignal
    \/ MainReturns
    \/ Drained
    \/ ShutdownTimeout
    \/ CreatePayment
    \/ ScheduleCheck
    \/ ScheduleProcessing
    \/ Tick
    \/ \E t \in Tasks : Promote(t)
    \/ \E t \in Tasks : Dispatch(t)
    \/ \E t \in Tasks : Settle(t)
    \/ \E t \in Tasks : HandleCheckStart(t)
    \/ \E t \in Tasks : HandleCheckUpdate(t)
    \/ \E t \in Tasks : HandleCheckSave(t)
    \/ \E t \in Tasks : HandleCheckSchedule(t)
    \/ \E t \in Tasks : HandleProcessStart(t)
    \/ \E t \in Tasks : HandleProcessUpdate(t)
    \/ \E t \in Tasks : HandleProcessSave(t)

\* The goroutine that runs the server is scheduled.
LifecycleSpec ==
    LifecycleInit /\ [][LifecycleNext]_vars /\ WF_vars(StartConsumer)

\* ------------------------------------------------------- vocabulary
\* A handler invocation that has begun (it holds task t) and one that has
\* returned (the queue has not settled the task yet).
Begun(t) == t.state = "active" /\ t.inv.handler # "none"
Returned(t) == Begun(t) /\ t.pc = "return"

CallsOf(inv, op) == SelectSeq(inv.calls, LAMBDA c : c.op = op)
Failed(call) == call.err # Nil

\* In a step: the task record t2 is new in the queue (a task was enqueued, or a
\* task changed into t2).
Entered(t2) == CopiesIn(t2, tasks') > CopiesIn(t2, tasks)

\* In a step: a handler invocation has just returned as t2.
JustReturned(t2) == Returned(t2) /\ Entered(t2)

FinalRow(p) == payments[p].exists /\ IsFinal(payments[p].status)

\* ------------------------------------------------------------- claims
\* C1: once a payment's stored status is completed, failed or canceled, no
\* step of a lifecycle-worker handler changes its stored status or description.
C1_TerminalAbsorbing ==
    [][ (\E t \in Tasks : WorkerStep(t)) =>
          \A p \in PaymentIds :
             FinalRow(p) =>
                /\ payments'[p].status = payments[p].status
                /\ payments'[p].description = payments[p].description ]_vars

\* C2: a status-check invocation that fetched a payment in a final status has
\* returned nil with the fetch as its only call (no update, no enqueue); the
\* step in which it did so left the payments table and the other tasks as
\* they were.
C2_Log ==
    \A t \in Tasks :
       (Begun(t) /\ t.inv.handler = "check" /\ IsFinal(t.inv.fetched.status)) =>
          /\ t.pc = "return"
          /\ t.inv.err = Nil
          /\ CallsOf(t.inv, "update") = <<>>
          /\ CallsOf(t.inv, "enqueue") = <<>>
C2_Effect ==
    \A t2 \in BagToSet(tasks') :
       (JustReturned(t2) /\ t2.inv.handler = "check" /\ IsFinal(t2.inv.fetched.status)) =>
          /\ payments' = payments
          /\ BagCardinality(tasks') = BagCardinality(tasks)
C2_FinalCheckIsNoOp == [](C2_Log) /\ [][C2_Effect]_vars

C2_Witness ==
    \E t \in Tasks :
       /\ Returned(t) /\ t.inv.handler = "check"
       /\ t.inv.fetched.status = PaymentStatusCanceled
       /\ t.inv.err = Nil

\* C3: a process invocation that returned nil made exactly one update call,
\* for the payment id of its task, which succeeded and carried completed or
\* failed; when it returns, the stored status of that payment is completed or
\* failed (not pending).
C3_Log ==
    \A t \in Tasks :
       (Returned(t) /\ t.inv.handler = "process" /\ t.inv.err = Nil) =>
          LET u == CallsOf(t.inv, "update")
          IN /\ Len(u) = 1
             /\ u[1].id = Unmarshal(t.payload).id
             /\ ~Failed(u[1])
             /\ u[1].status \in {PaymentStatusCompleted, PaymentStatusFailed}
C3_Effect ==
    \A t2 \in BagToSet(tasks') :
       (JustReturned(t2) /\ t2.inv.handler = "process" /\ t2.inv.err = Nil) =>
          /\ payments'[t2.inv.id].status \in {PaymentStatusCompleted, PaymentStatusFailed}
          /\ payments'[t2.inv.id].status = t2.inv.newStatus
C3_ProcessPersistsTerminalOnce == [](C3_Log) /\ [][C3_Effect]_vars

C3_Witness ==
    \E t \in Tasks :
       /\ Returned(t) /\ t.inv.handler = "process" /\ t.inv.err = Nil
       /\ payments[t.inv.id].status = PaymentStatusFailed

\* The follow-up task the status-check handler submits for payment id.
FollowUp(id) ==
    NewTask(TypeCheckPaymentStatus, Marshal(id), "default",
            PaymentCheckInterval, RetryMaxAttempts)

YoungPending(inv) ==
    inv.fetched.status = PaymentStatusPending /\ inv.fetched.age <= AgeThreshold
OldPending(inv) ==
    inv.fetched.status = PaymentStatusPending /\ inv.fetched.age > AgeThreshold

\* C4: a status-check invocation that fetched a pending payment no older than
\* the threshold resolves pending, makes no update call, and returns nil after
\* exactly one enqueue call: a status-check task for the same payment id, delayed
\* by the re-poll interval. When the submission succeeds that task joins the
\* queue; the payments table is not touched.
C4_Log ==
    \A t \in Tasks :
       (Begun(t) /\ t.inv.handler = "check" /\ YoungPending(t.inv)) =>
          LET e == CallsOf(t.inv, "enqueue")
          IN /\ t.inv.newStatus = PaymentStatusPending
             /\ CallsOf(t.inv, "update") = <<>>
             /\ \/ t.pc = "schedule" /\ e = <<>>
                \/ /\ t.pc = "return" /\ t.inv.err = Nil
                   /\ Len(e) = 1
                   /\ e[1].typ = TypeCheckPaymentStatus
                   /\ e[1].id = Unmarshal(t.payload).id
                   /\ e[1].delay = PaymentCheckInterval
C4_Effect ==
    \A t2 \in BagToSet(tasks') :
       (JustReturned(t2) /\ t2.inv.handler = "check" /\ YoungPending(t2.inv)) =>
          LET e == CallsOf(t2.inv, "enqueue")
              f == FollowUp(Unmarshal(t2.payload).id)
          IN /\ payments' = payments
             /\ Len(e) = 1
             /\ IF Failed(e[1])
                THEN BagCardinality(tasks') = BagCardinality(tasks)
                ELSE /\ BagCardinality(tasks') = BagCardinality(tasks) + 1
                     /\ CopiesIn(f, tasks') = CopiesIn(f, tasks) + 1
C4_YoungPendingReschedules == [](C4_Log) /\ [][C4_Effect]_vars

C4_Witness ==
    \E t \in Tasks :
       /\ Returned(t) /\ t.inv.handler = "check" /\ YoungPending(t.inv)
       /\ t.inv.fetched.age = AgeThreshold
       /\ ~Failed(CallsOf(t.inv, "enqueue")[1])
       /\ BagIn(FollowUp(t.inv.id), tasks)

\* C6 as stated: a status-check invocation that fetched a pending payment
\* older than the threshold, with no store failure, returns nil after exactly
\* one update call, carrying completed or failed, and no enqueue call.
C6_OldAlwaysResolvesFinal ==
    \A t \in Tasks :
       (Returned(t) /\ t.inv.handler = "check" /\ OldPending(t.inv)
          /\ \A i \in DOMAIN t.inv.calls : ~Failed(t.inv.calls[i])) =>
          LET u == CallsOf(t.inv, "update")
          IN /\ t.inv.err = Nil
             /\ Len(u) = 1
             /\ u[1].status \in {PaymentStatusCompleted, PaymentStatusFailed}
             /\ CallsOf(t.inv, "enqueue") = <<>>

\* C6 amended: such an invocation returns nil, and either it resolved
\* completed or failed, made exactly one update call carrying that status for
\* its payment id and no enqueue call, or it resolved pending, made no update
\* call and exactly one enqueue call, of a status check of its payment id
\* delayed by the configured interval.
C6_OldResolution ==
    \A t \in Tasks :
       (Returned(t) /\ t.inv.handler = "check" /\ OldPending(t.inv)
          /\ \A i \in DOMAIN t.inv.calls :
                t.inv.calls[i].op \in {"get", "update"} => ~Failed(t.inv.calls[i])) =>
          LET u == CallsOf(t.inv, "update")
              e == CallsOf(t.inv, "enqueue")
          IN /\ t.inv.err = Nil
             /\ \/ /\ t.inv.newStatus \in {PaymentStatusCompleted, PaymentStatusFailed}
                   /\ Len(u) = 1
                   /\ u[1].status = t.inv.newStatus
                   /\ u[1].id = Unmarshal(t.payload).id
                   /\ e = <<>>
                \/ /\ t.inv.newStatus = PaymentStatusPending
                   /\ u = <<>>
                   /\ Len(e) = 1
                   /\ e[1].typ = TypeCheckPaymentStatus
                   /\ e[1].id = Unmarshal(t.payload).id
                   /\ e[1].delay = PaymentCheckInterval

C6_Witness ==
    \E t \in Tasks :
       /\ Returned(t) /\ t.inv.handler = "check" /\ OldPending(t.inv)
       /\ t.inv.err = Nil
       /\ Len(CallsOf(t.inv, "update")) = 1
       /\ payments[t.inv.id].status = PaymentStatusCompleted
       /\ payments[t.inv.id].description = "Status updated by worker at"

\* C7: an invocation of either handler on a task whose payload does not
\* decode has returned a decode error having made no call at all (no fetch, no
\* update, no enqueue); the step left the payments table and the queue's
\* size as they were.
C7_Log ==
    \A t \in Tasks :
       (Begun(t) /\ t.payload \in MalformedPayloads) =>
          /\ t.pc = "return"
          /\ t.inv.err # Nil
          /\ Head(t.inv.err) = "json.Unmarshal failed"
          /\ t.inv.calls = <<>>
C7_Effect ==
    \A t2 \in BagToSet(tasks') :
       (JustReturned(t2) /\ t2.payload \in MalformedPayloads) =>
          /\ payments' = payments
          /\ BagCardinality(tasks') = BagCardinality(tasks)
C7_DecodeErrorBeforeAnyCall == [](C7_Log) /\ [][C7_Effect]_vars

C7_Witness ==
    /\ \E t \in Tasks :
          /\ Returned(t) /\ t.inv.handler = "check"
          /\ t.payload = JsonObject(<<Field("payment_id", StrVal("abc"))>>)
    /\ \E t \in Tasks :
          /\ Returned(t) /\ t.inv.handler = "process"
          /\ t.payload = NotJson

\* C8: a status-check invocation whose enqueue call failed has returned nil,
\* and the queue then acknowledges its task (the task leaves the queue, it is
\* not kept for a retry); no other failure is absorbed: an invocation of either
\* handler that returned nil has no failed fetch or update call and a payload
\* that decodes.
C8_Log ==
    \A t \in Tasks :
       Returned(t) =>
          /\ (\E i \in DOMAIN t.inv.calls :
                 t.inv.calls[i].op = "enqueue" /\ Failed(t.inv.calls[i]))
             => (t.inv.handler = "check" /\ t.inv.err = Nil
                   /\ t.inv.newStatus = PaymentStatusPending)
          /\ t.inv.err = Nil =>
                /\ Unmarshal(t.payload).err = Nil
                /\ \A i \in DOMAIN t.inv.calls :
                      Failed(t.inv.calls[i]) => t.inv.calls[i].op = "enqueue"
C8_Effect ==
    \A t \in Tasks :
       (Returned(t) /\ t.inv.err = Nil /\ CopiesIn(t, tasks') < CopiesIn(t, tasks)) =>
          /\ BagCardinality(tasks') = BagCardinality(tasks) - 1
          /\ \A t2 \in BagToSet(tasks') : ~Entered(t2)
C8_OnlyEnqueueFailureAbsorbed == [](C8_Log) /\ [][C8_Effect]_vars

C8_Witness ==
    \E t \in Tasks :
       /\ Returned(t) /\ t.inv.handler = "check" /\ t.inv.err = Nil
       /\ Len(CallsOf(t.inv, "enqueue")) = 1
       /\ Failed(CallsOf(t.inv, "enqueue")[1])
       /\ BagCardinality(tasks) < MaxTasks

\* The error a handler returns when its fetch failed with err.
FetchError(err) == Wrap("failed to get payment", err)

\* C9: an invocation of either handler whose fetch failed (the payment is not
\* in the table, or the store call failed, the table being dropped or not) has
\* returned an error wrapping the store's, with the fetch as its only call
\* (no update, no enqueue); the step
\* left the payments table and the queue's size as they were. And a handler
\* that starts on a decodable task whose payment is not in the table, or is
\* deleted, returns such an error in that step.
C9_Log ==
    \A t \in Tasks :
       (Begun(t) /\ t.inv.calls # <<>> /\ Failed(t.inv.calls[1])) =>
          /\ t.pc = "return"
          /\ t.inv.calls[1].op = "get"
          /\ t.inv.err = FetchError(t.inv.calls[1].err)
          /\ Len(t.inv.calls) = 1
C9_Effect ==
    /\ \A t2 \in BagToSet(tasks') :
          (JustReturned(t2) /\ t2.inv.calls # <<>> /\ Failed(t2.inv.calls[1])) =>
             /\ payments' = payments
             /\ BagCardinality(tasks') = BagCardinality(tasks)
    /\ \A t \in Tasks :
          (/\ t.state = "active" /\ t.pc = "start"
           /\ CopiesIn(t, tasks') < CopiesIn(t, tasks)
           /\ Unmarshal(t.payload).err = Nil
           /\ LET id == Unmarshal(t.payload).id
              IN id \notin PaymentIds \/ ~payments[id].exists
                    \/ payments[id].deleted) =>
             \E t2 \in BagToSet(tasks') :
                /\ JustReturned(t2)
                /\ t2.typ = t.typ /\ t2.payload = t.payload
                /\ t2.inv.err \in {FetchError(<<"payment not found">>),
                                   FetchError(<<"db unavailable">>)}
C9_FetchFailurePropagates == [](C9_Log) /\ [][C9_Effect]_vars

\* A status check has found no payment and, the table dropped since, a
\* process task has had its fetch fail.
C9_Witness ==
    /\ TableDropped(payments)
    /\ \E t \in Tasks :
          /\ Returned(t) /\ t.inv.handler = "check"
          /\ t.inv.err = FetchError(<<"payment not found">>)
    /\ \E t \in Tasks :
          /\ Returned(t) /\ t.inv.handler = "process"
          /\ t.inv.err = FetchError(<<"db unavailable">>)

\* The error a handler returns when its update failed with err.
UpdateError(handler, err) ==
    IF handler = "check" THEN Wrap("failed to update payment status", err)
    ELSE Wrap("failed to update payment", err)

\* C10: an invocation of either handler whose update call failed has returned
\* an error wrapping the store's, with that update as its last call (no
\* enqueue); the step left the payments table and the queue's size as they
\* were; and the queue does not acknowledge a task whose handler returned an
\* error: it keeps it for redelivery while the task has retries left, and
\* dead-letters it otherwise.
C10_Log ==
    \A t \in Tasks :
       (Begun(t) /\ \E i \in DOMAIN t.inv.calls :
                       t.inv.calls[i].op = "update" /\ Failed(t.inv.calls[i])) =>
          LET u == CallsOf(t.inv, "update")
          IN /\ t.pc = "return"
             /\ Len(u) = 1
             /\ t.inv.calls[Len(t.inv.calls)] = u[1]
             /\ t.inv.err = UpdateError(t.inv.handler, u[1].err)
             /\ CallsOf(t.inv, "enqueue") = <<>>
C10_Effect ==
    /\ \A t2 \in BagToSet(tasks') :
          (JustReturned(t2) /\ \E i \in DOMAIN t2.inv.calls :
                                  t2.inv.calls[i].op = "update" /\ Failed(t2.inv.calls[i])) =>
             /\ payments' = payments
             /\ BagCardinality(tasks') = BagCardinality(tasks)
    /\ \A t \in Tasks :
          (Returned(t) /\ t.inv.err # Nil /\ CopiesIn(t, tasks') < CopiesIn(t, tasks)) =>
             /\ BagCardinality(tasks') = BagCardinality(tasks)
             /\ \E t2 \in BagToSet(tasks') :
                   /\ Entered(t2)
                   /\ t2.typ = t.typ /\ t2.payload = t.payload
                   /\ t2.state = IF t.retried < t.maxRetry THEN "retry" ELSE "archived"
C10_UpdateFailurePropagates == [](C10_Log) /\ [][C10_Effect]_vars

C10_Witness ==
    /\ \E t \in Tasks :
          /\ Returned(t) /\ t.inv.handler = "process"
          /\ t.inv.err = <<"failed to update payment", "db unavailable">>
          /\ payments[t.inv.id].status = PaymentStatusPending
    /\ \E t \in Tasks :
          /\ Returned(t) /\ t.inv.handler = "check"
          /\ t.inv.err = <<"failed to update payment status", "db unavailable">>

\* A status-check task for payment p is outstanding: delayed, ready, held by
\* a handler invocation, or awaiting a retry.
CheckOutstanding(p) ==
    \E t \in Tasks :
       /\ t.typ = TypeCheckPaymentStatus
       /\ t.payload = Marshal(p)
       /\ t.state \in {"scheduled", "pending", "active", "retry"}

\* C5: when the store and the queue do not fail and the gateway's draw is
\* fair, a pending payment older than the threshold with a status-check task
\* outstanding eventually has the stored status completed or failed.
C5_OldPendingConverges ==
    \A p \in PaymentIds :
       (/\ payments[p].exists
        /\ payments[p].status = PaymentStatusPending
        /\ payments[p].age > AgeThreshold
        /\ CheckOutstanding(p))
       ~> (payments[p].status \in {PaymentStatusCompleted, PaymentStatusFailed})

C5_Witness ==
    \E t \in Tasks :
       /\ Returned(t) /\ t.inv.handler = "check" /\ OldPending(t.inv)
       /\ t.retried = 0
       /\ payments[t.inv.id].status = PaymentStatusFailed
       /\ payments[t.inv.id].description = "Status updated by worker at"

\* C11: every task carries the configured retry limit and has failed at most
\* that many times before its current attempt (at most limit + 1 attempts);
\* a task is dead-lettered only with its retries used up and then never
\* changes or leaves; a returned task is acknowledged (gone, nothing in its
\* place) when its handler returned nil, and otherwise redelivered with one
\* more retry counted, or dead-lettered when none is left.
C11_Budget ==
    \A t \in Tasks :
       /\ t.maxRetry = RetryMaxAttempts
       /\ t.retried \in 0..RetryMaxAttempts
       /\ t.state = "archived" => t.retried = t.maxRetry
C11_Effect ==
    \A t \in Tasks :
       /\ t.state = "archived" => CopiesIn(t, tasks') >= CopiesIn(t, tasks)
       /\ (Returned(t) /\ CopiesIn(t, tasks') < CopiesIn(t, tasks)) =>
             IF t.inv.err = Nil
             THEN /\ BagCardinality(tasks') = BagCardinality(tasks) - 1
                  /\ \A t2 \in BagToSet(tasks') : ~Entered(t2)
             ELSE /\ BagCardinality(tasks') = BagCardinality(tasks)
                  /\ \E t2 \in BagToSet(tasks') :
                        /\ Entered(t2)
                        /\ t2.typ = t.typ /\ t2.payload = t.payload
                        /\ IF t.retried < RetryMaxAttempts
                           THEN t2.state = "retry" /\ t2.retried = t.retried + 1
                           ELSE t2.state = "archived" /\ t2.retried = t.retried
C11_BoundedRedelivery == [](C11_Budget) /\ [][C11_Effect]_vars

C11_Witness ==
    \E t \in Tasks : t.state = "archived" /\ t.retried = RetryMaxAttempts

\* In a step: a handler invocation starts (the runtime hands a task over).
Started(t2) == t2.state = "active" /\ t2.pc = "start" /\ Entered(t2)

\* C12: once the stop hook has run, no handler invocation starts; while the
\* server drains, an invocation in flight can always take its next step and
\* a task in flight changes only by its handler's steps, the settling of its
\* return and the passing of time; the process ends after a shutdown only
\* with no invocation in flight, or else by the timeout of the shutdown.
C12_Drain ==
    /\ runtime.consumer = "closed" => (runtime.exit = "ok" /\ NumActive = 0)
    /\ (runtime.consumer = "draining" /\ runtime.exit = "none") =>
          \A t \in Tasks :
             IsActive(t) => ENABLED (WorkerStep(t) \/ Settle(t))
C12_Effect ==
    /\ runtime.hook = "stopped" =>
          \A t2 \in BagToSet(tasks') : ~Started(t2)
    /\ runtime.consumer = "draining" =>
          \A t \in Tasks :
             (IsActive(t) /\ CopiesIn(t, tasks') < CopiesIn(t, tasks)) =>
                (WorkerStep(t) \/ Settle(t) \/ Tick)
    /\ (runtime.exit = "none" /\ runtime'.exit # "none") =>
          \/ runtime.consumer = "none" /\ runtime'.exit = "fatal"
          \/ NumActive = 0 /\ runtime'.exit = "ok"
          \/ /\ runtime.consumer = "draining" /\ NumActive > 0
             /\ runtime'.exit = "ok" /\ runtime'.consumer = "aborted"
C12_GracefulShutdown == [](C12_Drain) /\ [][C12_Effect]_vars

\* C13: when Run returns an error the process has ended fatally: no state has
\* a failed consumer in a running process; a process that has ended does
\* nothing more (its tasks change only as time passes); and the state in
\* which the start hook has reported success and no consumer is active yet
\* does not last in a running process.
C13_Fatal ==
    /\ runtime.consumer = "failed" => runtime.exit = "fatal"
    /\ runtime.exit = "fatal" =>
          (runtime.hook \in {"ok", "stopped"} /\ NumActive = 0)
C13_Effect ==
    runtime.exit # "none" =>
       /\ runtime' = runtime
       /\ \A t2 \in BagToSet(tasks') :
             Entered(t2) =>
                \/ t2.state = "scheduled"
                \/ t2.state = "pending" /\ t2.retried = 0
                \/ Tick
C13_FailFast ==
    /\ [](C13_Fatal)
    /\ [][C13_Effect]_vars
    /\ (runtime.hook # "pending" /\ runtime.consumer = "none" /\ runtime.exit = "none")
          ~> (runtime.consumer # "none" \/ runtime.exit # "none")

C13_Witness ==
    /\ runtime.consumer = "failed" /\ runtime.exit = "fatal"
    /\ \E t \in Tasks : t.state = "pending"

\* The task SchedulePaymentStatusCheck(paymentID, delay) is to submit, as the
\* queue stores it.
CheckTaskFor(paymentID, delay) ==
    [state |-> IF delay > 0 THEN "scheduled" ELSE "pending",
     typ |-> "payment:check_status",
     payload |-> JsonObject(<<Field("payment_id", NumVal(paymentID))>>),
     queue |-> "default", maxRetry |-> RetryMaxAttempts, retried |-> 0,
     remaining |-> delay, pc |-> "", inv |-> NoInv]

Delays == {0, PaymentCheckInterval}

\* C14 as the spec words it: on success the method returns the identifier of
\* the submitted task.
C14_ReturnsTaskId ==
    \A id \in PaymentIds, delay \in Delays :
       LET r == SchedulePaymentStatusCheck(tasks, id, delay, FALSE)
       IN r.err = Nil => ("id" \in DOMAIN r.ret /\ r.ret.id = r.info.ID)

\* C14: on every reachable queue, SchedulePaymentStatusCheck(paymentID, delay)
\* makes one submission, of a status-check task for paymentID on the default
\* queue with the given delay and the configured retry limit; it returns an
\* error exactly when the submission fails, and then the queue is unchanged;
\* on success the queue holds exactly that one task more, and the method
\* returns nil and nothing else (the task's identifier is not returned).
C14_Contract ==
    \A id \in PaymentIds, delay \in Delays, fails \in BOOLEAN :
       LET r == SchedulePaymentStatusCheck(tasks, id, delay, fails)
           task == CheckTaskFor(id, delay)
       IN /\ r.call = EnqueueCall(id, "payment:check_status", "default", delay,
                                  RetryMaxAttempts, r.call.err)
          /\ Unmarshal(task.payload) = [err |-> Nil, id |-> id]
          /\ (r.err # Nil) <=> (r.call.err # Nil)
          /\ (r.call.err # Nil) <=> (fails \/ BagCardinality(tasks) >= MaxTasks)
          /\ r.err # Nil => (r.tasks = tasks /\ r.err = Wrap("failed to enqueue task", r.call.err))
          /\ r.err = Nil => (r.tasks = tasks (+) One(task) /\ r.info.ID # "")
          /\ r.ret = [err |-> r.err]
C14_Effect ==
    ScheduleCheck =>
       /\ BagCardinality(tasks') = BagCardinality(tasks) + 1
       /\ \E id \in PaymentIds, delay \in Delays :
             tasks' = tasks (+) One(CheckTaskFor(id, delay))
C14_ScheduleStatusCheck == [](C14_Contract) /\ [][C14_Effect]_vars

C14_Witness ==
    /\ BagCardinality(tasks) = MaxTasks
    /\ \E t \in Tasks : t = CheckTaskFor(1, PaymentCheckInterval)
    /\ \E t \in Tasks : t = CheckTaskFor(1, 0)

\* The task SchedulePaymentProcessing(paymentID) is to submit, as the queue
\* stores it.
ProcessTaskFor(paymentID) ==
    [state |-> "pending", typ |-> "payment:process",
     payload |-> JsonObject(<<Field("payment_id", NumVal(paymentID))>>),
     queue |-> "critical", maxRetry |-> RetryMaxAttempts, retried |-> 0,
     remaining |-> 0, pc |-> "", inv |-> NoInv]

\* C15: on every reachable queue, SchedulePaymentProcessing(paymentID) makes
\* one submission, of a process task for paymentID with no delay and the
\* configured retry limit, on the critical queue, whose weight is above that
\* of the queue of the status checks; it returns an error exactly when the
\* submission fails, and then the queue is unchanged; on success the queue
\* holds exactly that one task more, ready at once.
C15_Contract ==
    \A id \in PaymentIds, fails \in BOOLEAN :
       LET r == SchedulePaymentProcessing(tasks, id, fails)
           task == ProcessTaskFor(id)
           check == SchedulePaymentStatusCheck(tasks, id, 0, fails)
       IN /\ r.call = EnqueueCall(id, "payment:process", "critical", 0,
                                  RetryMaxAttempts, r.call.err)
          /\ r.call.queue \in Queues /\ check.call.queue \in Queues
          /\ QueueWeight(r.call.queue) > QueueWeight(check.call.queue)
          /\ Unmarshal(task.payload) = [err |-> Nil, id |-> id]
          /\ (r.err # Nil) <=> (r.call.err # Nil)
          /\ (r.call.err # Nil) <=> (fails \/ BagCardinality(tasks) >= MaxTasks)
          /\ r.err # Nil => (r.tasks = tasks /\ r.err = Wrap("failed to enqueue task", r.call.err))
          /\ r.err = Nil => r.tasks = tasks (+) One(task)
C15_Effect ==
    ScheduleProcessing =>
       /\ BagCardinality(tasks') = BagCardinality(tasks) + 1
       /\ \E id \in PaymentIds :
             /\ tasks' = tasks (+) One(ProcessTaskFor(id))
             /\ ProcessTaskFor(id).state = "pending"
C15_ScheduleProcessing == [](C15_Contract) /\ [][C15_Effect]_vars

C15_Witness ==
    /\ CopiesIn(ProcessTaskFor(1), tasks) = 1
    /\ \E t \in Tasks : t.typ = TypeCheckPaymentStatus /\ t.state = "scheduled"

\* Status values outside the enumeration: none, unknown, wrong case.
InvalidStatuses == {"", "invalid_status", "PENDING", "refunded"}

\* C16: on every reachable payments table, paymentService.UpdatePayment with
\* a status outside {pending, completed, failed, canceled} returns an error
\* and no payment, and persists nothing, whatever the id, the description
\* and the store's health; for a payment it could fetch (one in the table,
\* not deleted) the error is the validation error "invalid payment status".
C16_InvalidStatusRejected ==
    \A id \in PaymentIds, status \in InvalidStatuses,
       text \in {"", "client note"}, fault \in {"none", "get", "save"} :
       LET r == UpdatePayment(payments, id, UpdatePaymentRequest(status, text), fault)
       IN /\ r.err # Nil
          /\ r.view = NoView
          /\ r.store = payments
          /\ (payments[id].exists /\ ~payments[id].deleted /\ fault # "get") =>
                r.err = <<"invalid payment status">>

C16_Witness ==
    \E id \in PaymentIds :
       /\ payments[id].exists /\ ~payments[id].deleted
       /\ payments[id].status = PaymentStatusCanceled
       /\ UpdatePayment(payments, id, UpdatePaymentRequest("invalid_status", "client note"),
                        "none").err = <<"invalid payment status">>
       /\ UpdatePayment(payments, id, UpdatePaymentRequest("pending", ""), "none").store
             # payments

\* C17: a step that creates a payment also enqueues a process task for the
\* new payment's id.
C17_CreateSchedulesProcessing ==
    [][ \A id \in PaymentIds :
           (~payments[id].exists /\ payments'[id].exists) =>
              CopiesIn(ProcessTaskFor(id), tasks') > CopiesIn(ProcessTaskFor(id), tasks) ]_vars

\* The number of tasks of the queue that satisfy P.
NumOf(P(_)) == BagCardinality([t \in {x \in Tasks : P(x)} |-> tasks[t]])

\* A status-check task that is outstanding: scheduled, queued or in flight.
OutstandingCheck(t) ==
    /\ t.typ = TypeCheckPaymentStatus
    /\ t.state \in {"scheduled", "pending", "active", "retry"}
\* An invocation that has submitted its follow-up and returned nil: it only
\* waits to be acknowledged.
HandedOver(t) ==
    /\ Returned(t) /\ t.inv.err = Nil /\ t.inv.calls # <<>>
    /\ LET last == t.inv.calls[Len(t.inv.calls)]
       IN last.op = "enqueue" /\ ~Failed(last)
YetToCheck(t) == OutstandingCheck(t) /\ ~HandedOver(t)
FreshCheck(t) ==
    /\ t.typ = TypeCheckPaymentStatus /\ t.state \in {"scheduled", "pending"}
    /\ t.retried = 0 /\ t.inv = NoInv

\* C18 as the spec words it: at any time at most one status-check task of the
\* chain is outstanding.
C18_AtMostOneOutstanding == NumOf(OutstandingCheck) <= 1

\* C18: in a chain started by one SchedulePaymentStatusCheck call, a follow-up
\* is submitted only by the predecessor's invocation, as its last call, and
\* that invocation then returns nil and is acknowledged, never retried; so at
\* most one task of the chain has its check still to do: every other
\* outstanding task of the chain is a predecessor that has handed over and
\* waits to be acknowledged.
C18_Chain == NumOf(YetToCheck) <= 1
C18_Effect ==
    /\ (tasks # EmptyBag /\ BagCardinality(tasks') > BagCardinality(tasks)) =>
          /\ \E t \in Tasks : t.state = "active" /\ t.pc = "schedule" /\ HandleCheckSchedule(t)
          /\ \E t2, t3 \in BagToSet(tasks') :
                /\ Entered(t2) /\ FreshCheck(t2)
                /\ t2.remaining = PaymentCheckInterval
                /\ Entered(t3) /\ Returned(t3) /\ t3.inv.err = Nil
                /\ t2.payload = Marshal(t3.inv.id)
    /\ \A t \in Tasks :
          (HandedOver(t) /\ CopiesIn(t, tasks') < CopiesIn(t, tasks)) =>
             BagCardinality(tasks') = BagCardinality(tasks) - 1
C18_ChainIsSequential == [](C18_Chain) /\ [][C18_Effect]_vars

C18_Witness ==
    /\ \E t \in Tasks : HandedOver(t) /\ t.retried = 1
    /\ \E t \in Tasks : FreshCheck(t) /\ t.state = "scheduled"

\* A status-check task that is ready in the default queue.
ReadyCheck(t) ==
    t.typ = TypeCheckPaymentStatus /\ t.queue = "default" /\ t.state = "pending"
ReadyProcess(t) ==
    t.typ = TypeProcessPayment /\ t.queue = "critical" /\ t.state = "pending"

\* C19: on a server with fewer workers than ready tasks and a dispatcher fair
\* in its draws, a status-check task that is ready in the default queue is
\* eventually handed to its handler, whatever the producers put on the
\* critical queue meanwhile; whenever a worker is free, ready tasks of the
\* critical queue do not keep the server from taking the check. (The chain
\* has at most one ready check at a time: leaving the ready state is being
\* dispatched.)
C19_NotBlocked ==
    \A t \in Tasks :
       (ReadyCheck(t) /\ NumActive < runtime.concurrency) => ENABLED Dispatch(t)
C19_ChecksNotStarved ==
    /\ [](C19_NotBlocked)
    /\ [](NumOf(ReadyCheck) <= 1)
    /\ (NumOf(ReadyCheck) = 1) ~> (NumOf(ReadyCheck) = 0)

\* The check has just been given the last worker while a process task waits
\* in the critical queue.
C19_Witness ==
    /\ NumActive = runtime.concurrency
    /\ NumOf(ReadyProcess) >= 1
    /\ \E t \in Tasks :
          /\ t.typ = TypeCheckPaymentStatus /\ t.queue = "default"
          /\ t.state = "active" /\ t.pc = "start"

\* C20: in every reachable state the handler invocations in flight, over all
\* the queues together, are no more than the configured concurrency
\* (worker.concurrency of the configuration).
C20_ConcurrencyBound ==
    /\ NumActive <= runtime.configured
    /\ \A q \in Queues :
          BagCardinality([t \in {x \in Tasks : IsActive(x) /\ x.queue = q} |-> tasks[t]])
             <= runtime.configured

\* The one task a scheduling call has submitted on an empty queue.
Submitted(r) == CHOOSE t \in BagToSet(r.tasks) : TRUE

\* C21: the task SchedulePaymentStatusCheck submits has the type under which
\* HandleCheckPaymentStatus is registered and the task SchedulePaymentProcessing
\* submits the type under which HandleProcessPayment is registered, and the
\* payment id decoded from either task's payload is the id passed to the
\* scheduling call; so in every state an invocation on a status-check task is
\* one of HandleCheckPaymentStatus, an invocation on a process task is one of
\* HandleProcessPayment, and the payment the invocation fetches is the one the
\* task was scheduled for.
C21_Contract ==
    \A id \in PaymentIds, delay \in Delays :
       LET c == Submitted(SchedulePaymentStatusCheck(EmptyBag, id, delay, FALSE))
           p == Submitted(SchedulePaymentProcessing(EmptyBag, id, FALSE))
       IN /\ RegisterHandlers(c.typ) = "check"
          /\ RegisterHandlers(p.typ) = "process"
          /\ c.typ # p.typ
          /\ Unmarshal(c.payload) = [err |-> Nil, id |-> id]
          /\ Unmarshal(p.payload) = [err |-> Nil, id |-> id]
C21_Routed ==
    \A t \in Tasks, id \in PaymentIds :
       LET c == Submitted(SchedulePaymentStatusCheck(EmptyBag, id, 0, FALSE))
           p == Submitted(SchedulePaymentProcessing(EmptyBag, id, FALSE))
       IN (Begun(t) /\ t.payload \in {c.payload, p.payload}) =>
             /\ t.typ = c.typ => t.inv.handler = "check"
             /\ t.typ = p.typ => t.inv.handler = "process"
             /\ t.inv.id = id
             /\ t.inv.calls # <<>>
             /\ t.inv.calls[1] = GetCall(id, t.inv.calls[1].err)
C21_ProducerMatchesConsumer == C21_Contract /\ C21_Routed

C21_Witness ==
    /\ \E t \in Tasks :
          /\ Returned(t) /\ t.inv.handler = "check" /\ t.inv.id = 1
          /\ t.typ = "payment:check_status" /\ t.queue = "default"
    /\ \E t \in Tasks :
          /\ Returned(t) /\ t.inv.handler = "process" /\ t.inv.id = 1
          /\ t.typ = "payment:process" /\ t.queue = "critical"

\* C22: a payment leaves only the pending status: no step (every write of a
\* status goes through paymentService.UpdatePayment) changes the stored
\* status of a payment that is completed, failed or canceled.
C22_OnlyPendingIsLeft ==
    [][ \A p \in PaymentIds :
           FinalRow(p) => payments'[p].status = payments[p].status ]_vars

\* In a step: the handler of task t, handed over and not yet begun, begins as
\* t2 (same task, same attempt).
BeginsAs(t, t2) ==
    /\ t.state = "active" /\ t.pc = "start"
    /\ CopiesIn(t, tasks') < CopiesIn(t, tasks)
    /\ Entered(t2) /\ Begun(t2)
    /\ t2.typ = t.typ /\ t2.payload = t.payload /\ t2.retried = t.retried

\* C23: a task carries nothing of an invocation from one attempt to the next
\* (outside an invocation the task has no invocation record, on a first
\* delivery and on a redelivery alike); an invocation on a decodable task
\* makes exactly one fetch, as its first call, before any update or enqueue
\* call; the status a status-check invocation holds is the one stored at the
\* moment it began, the status it resolves is the gateway's answer for that
\* fetched payment, and it updates only when the two differ.
C23_Log ==
    \A t \in Tasks :
       /\ (~IsActive(t) \/ t.pc = "start") => t.inv = NoInv
       /\ (Begun(t) /\ Unmarshal(t.payload).err = Nil) =>
             LET u == CallsOf(t.inv, "update")
             IN /\ t.inv.calls # <<>>
                /\ t.inv.calls[1] = GetCall(Unmarshal(t.payload).id, t.inv.calls[1].err)
                /\ Len(CallsOf(t.inv, "get")) = 1
                /\ (t.inv.handler = "check" /\ ~Failed(t.inv.calls[1])) =>
                      /\ IsFinal(t.inv.fetched.status) =>
                            (t.inv.newStatus = "" /\ Len(t.inv.calls) = 1)
                      /\ ~IsFinal(t.inv.fetched.status) =>
                            \E rand \in RandValues :
                               t.inv.newStatus = simulatePaymentGatewayCheck(t.inv.fetched, rand)
                      /\ u # <<>> =>
                            (u[1].status = t.inv.newStatus
                               /\ t.inv.newStatus # t.inv.fetched.status)
C23_Effect ==
    \A t \in Tasks :
       (t.state = "active" /\ t.pc = "start"
          /\ CopiesIn(t, tasks') < CopiesIn(t, tasks)
          /\ Unmarshal(t.payload).err = Nil) =>
          \E t2 \in BagToSet(tasks') :
             /\ BeginsAs(t, t2)
             /\ Len(t2.inv.calls) = 1
             /\ t2.inv.calls[1].op = "get"
             /\ (t2.inv.handler = "check" /\ ~Failed(t2.inv.calls[1])) =>
                   t2.inv.fetched =
                      Read(GetPaymentByID(payments, Unmarshal(t.payload).id, FALSE).view)
C23_FreshFetchEveryAttempt == [](C23_Log) /\ [][C23_Effect]_vars

C23_Witness ==
    \E t \in Tasks :
       /\ Returned(t) /\ t.inv.handler = "check" /\ t.retried = 1
       /\ t.inv.fetched.status = PaymentStatusCompleted
       /\ Len(t.inv.calls) = 1 /\ t.inv.err = Nil

\* The callers whose save on payment p was executed, in the order of
\* execution.
WritersOf(p) == SelectSeq(updates.order, LAMBDA u : updates.call[u].id = p)

\* The two calls are over, both saved, and they overlapped: each fetched
\* before the other saved.
BothSavedOverlapping ==
    /\ \A u \in Updaters :
          /\ updates.call[u].pc = "done" /\ updates.call[u].err = Nil
          /\ updates.call[u].seen = 0
    /\ \A u, v \in Updaters : updates.call[u].id = updates.call[v].id

\* C24: with two calls of UpdatePayment at any point of their fetch and their
\* save, the stored status of a payment is the status requested by the call
\* whose save on it was executed last (the status it was created with when no
\* save was executed yet), so never a status that neither call requested; a
\* save sets the stored status to the saving call's requested status.
C24_Stored ==
    \A p \in PaymentIds :
       payments[p].exists =>
          LET w == WritersOf(p)
          IN /\ payments[p].status =
                   IF w = <<>> THEN PaymentStatusPending
                   ELSE updates.call[w[Len(w)]].req.status
             /\ payments[p].status \in
                   {PaymentStatusPending} \cup
                   {updates.call[u].req.status : u \in Updaters}
C24_Effect ==
    \A u \in Updaters :
       (Len(updates'.order) > Len(updates.order)
          /\ updates'.order[Len(updates'.order)] = u) =>
          /\ payments'[updates.call[u].id].status = updates.call[u].req.status
          /\ \A p \in PaymentIds :
                p # updates.call[u].id => payments'[p] = payments[p]
C24_LastWriterWins == [](C24_Stored) /\ [][C24_Effect]_vars

C24_Witness ==
    /\ BothSavedOverlapping
    /\ updates.order = <<"b", "a">>
    /\ updates.call["b"].req.status = PaymentStatusCompleted
    /\ updates.call["a"].req.status = PaymentStatusFailed
    /\ payments[1].status = PaymentStatusFailed

\* C25: every update call a handler invocation has made carries completed or
\* failed (never pending, never canceled, never a value outside the
\* enumeration) and none was rejected as an invalid status; the status an
\* invocation resolves is pending, completed or failed; and no step that
\* moves a task in flight (a step of a handler) turns a stored status into
\* pending or writes anything but completed or failed.
C25_Log ==
    \A t \in Tasks :
       Begun(t) =>
          /\ t.inv.newStatus \in {"", PaymentStatusPending,
                                  PaymentStatusCompleted, PaymentStatusFailed}
          /\ \A i \in DOMAIN t.inv.calls :
                t.inv.calls[i].op = "update" =>
                   /\ t.inv.calls[i].status \in
                         {PaymentStatusCompleted, PaymentStatusFailed}
                   /\ t.inv.calls[i].status = t.inv.newStatus
                   /\ t.inv.calls[i].err # <<"invalid payment status">>
C25_Effect ==
    (\E t \in Tasks : IsActive(t) /\ CopiesIn(t, tasks') < CopiesIn(t, tasks)) =>
       \A p \in PaymentIds :
          /\ payments'[p].status # payments[p].status =>
                payments'[p].status \in {PaymentStatusCompleted, PaymentStatusFailed}
          /\ payments'[p].status = PaymentStatusPending =>
                payments[p].status = PaymentStatusPending
C25_WorkerWritesCompletedOrFailed == [](C25_Log) /\ [][C25_Effect]_vars

C25_Witness ==
    /\ \E t \in Tasks :
          /\ Returned(t) /\ t.inv.handler = "check" /\ t.inv.err = Nil
          /\ Len(CallsOf(t.inv, "update")) = 1
          /\ CallsOf(t.inv, "update")[1].status = PaymentStatusFailed
    /\ \E t \in Tasks :
          /\ Returned(t) /\ t.inv.handler = "process" /\ t.inv.err = Nil
          /\ CallsOf(t.inv, "update")[1].status = PaymentStatusCompleted

\* C26: with status-check tasks only, once the stored status of a payment is
\* completed or failed no step changes it.
C26_ResolvedStatusKept ==
    [][ \A p \in PaymentIds :
           (payments[p].exists
              /\ payments[p].status \in {PaymentStatusCompleted, PaymentStatusFailed}) =>
              payments'[p].status = payments[p].status ]_vars

\* The number of status-check tasks outstanding for payment p in the queue tk.
NumOutstanding(tk, p) ==
    BagCardinality([t \in {x \in BagToSet(tk) :
                              /\ x.typ = TypeCheckPaymentStatus
                              /\ x.payload = Marshal(p)
                              /\ x.state \in {"scheduled", "pending", "active", "retry"}}
                    |-> tk[t]])

\* C27 as the spec words it: while the stored status of a payment is final,
\* the number of its outstanding status-check tasks never increases.
C27_NeverIncreases ==
    [][ \A p \in PaymentIds :
           FinalRow(p) => NumOutstanding(tasks', p) <= NumOutstanding(tasks, p) ]_vars

\* C27: an invocation that fetched a payment in a final status makes no
\* enqueue call and returns nil; while the stored status is final, the
\* outstanding status-check tasks of the payment increase only by the one
\* follow-up of an invocation that had fetched the payment pending, resolved
\* pending and made no update; and with the clock, the queue and the handlers
\* making progress, a payment whose stored status is final eventually has no
\* outstanding status-check task.
C27_Log ==
    \A t \in Tasks :
       (Begun(t) /\ t.inv.handler = "check" /\ IsFinal(t.inv.fetched.status)) =>
          (t.pc = "return" /\ t.inv.err = Nil /\ Len(t.inv.calls) = 1)
C27_Effect ==
    \A p \in PaymentIds :
       (FinalRow(p) /\ NumOutstanding(tasks', p) > NumOutstanding(tasks, p)) =>
          /\ NumOutstanding(tasks', p) = NumOutstanding(tasks, p) + 1
          /\ \E t \in Tasks :
                /\ t.state = "active" /\ t.pc = "schedule" /\ t.inv.id = p
                /\ t.inv.fetched.status = PaymentStatusPending
                /\ t.inv.newStatus = PaymentStatusPending
                /\ CallsOf(t.inv, "update") = <<>>
                /\ HandleCheckSchedule(t)
C27_PollingEnds ==
    /\ [](C27_Log)
    /\ [][C27_Effect]_vars
    /\ \A p \in PaymentIds : FinalRow(p) ~> (NumOutstanding(tasks, p) = 0)

C27_Witness ==
    \E t \in Tasks :
       /\ FinalRow(1)
       /\ Returned(t) /\ t.inv.id = 1 /\ t.inv.fetched.status = PaymentStatusPending
       /\ HandedOver(t)
       /\ NumOutstanding(tasks, 1) = 2

PendingRow(p) == payments[p].exists /\ payments[p].status = PaymentStatusPending

\* The status-check tasks of the queue tk that carry the polling of payment p:
\* outstanding, and not merely waiting for the acknowledgement of an
\* invocation that has returned nil.
NumPolling(tk, p) ==
    BagCardinality([t \in {x \in BagToSet(tk) :
                              /\ x.typ = TypeCheckPaymentStatus
                              /\ x.payload = Marshal(p)
                              /\ x.state \in {"scheduled", "pending", "active", "retry"}
                              /\ ~(Returned(x) /\ x.inv.err = Nil)}
                    |-> tk[t]])

\* In a step: the last task that carries the polling of payment p, which is
\* and stays pending, stops carrying it.
PollingStops(p) ==
    /\ PendingRow(p) /\ payments'[p].status = PaymentStatusPending
    /\ NumPolling(tasks, p) > 0
    /\ NumPolling(tasks', p) = 0

\* In a step: an invocation for payment p returns nil after its enqueue call
\* failed.
AbsorbedEnqueueFailure(p) ==
    \E t2 \in BagToSet(tasks') :
       /\ JustReturned(t2) /\ t2.inv.id = p /\ t2.inv.err = Nil
       /\ t2.inv.calls # <<>>
       /\ t2.inv.calls[Len(t2.inv.calls)].op = "enqueue"
       /\ Failed(t2.inv.calls[Len(t2.inv.calls)])
       /\ BagCardinality(tasks') = BagCardinality(tasks)

\* In a step: the queue dead-letters the task of an invocation for payment p
\* that returned an error with no retry left.
DeadLettered(p) ==
    \E t \in Tasks :
       /\ Returned(t) /\ t.inv.id = p /\ t.inv.err # Nil
       /\ t.retried = t.maxRetry
       /\ CopiesIn(t, tasks') < CopiesIn(t, tasks)
       /\ \E t2 \in BagToSet(tasks') :
             Entered(t2) /\ t2.state = "archived" /\ t2.payload = t.payload

\* C28 as the spec words it: the polling of a payment that stays pending
\* stops only by an absorbed enqueue failure.
C28_StopsOnlyOnEnqueueFailure ==
    [][ \A p \in PaymentIds : PollingStops(p) => AbsorbedEnqueueFailure(p) ]_vars

\* C28: an invocation that fetched a payment pending, resolved pending and
\* returned nil has made an enqueue call for it as its last call; and the
\* polling of a payment that stays pending stops only in a step that
\* acknowledges an invocation whose enqueue call failed, or in a step that
\* dead-letters the task after its handler returned an error with no retry
\* left.
C28_Log ==
    \A t \in Tasks :
       (Returned(t) /\ t.inv.handler = "check" /\ t.inv.err = Nil
          /\ t.inv.fetched.status = PaymentStatusPending
          /\ t.inv.newStatus = PaymentStatusPending) =>
          /\ Len(CallsOf(t.inv, "enqueue")) = 1
          /\ t.inv.calls[Len(t.inv.calls)] =
                EnqueueCall(t.inv.id, TypeCheckPaymentStatus, "default",
                            PaymentCheckInterval, RetryMaxAttempts,
                            t.inv.calls[Len(t.inv.calls)].err)
C28_Effect ==
    \A p \in PaymentIds :
       PollingStops(p) => (AbsorbedEnqueueFailure(p) \/ DeadLettered(p))
C28_PollingOfPendingGoesOn == [](C28_Log) /\ [][C28_Effect]_vars

C28_Witness ==
    /\ PendingRow(1) /\ NumPolling(tasks, 1) = 0
    /\ \E t \in Tasks :
          /\ t.state = "archived" /\ t.typ = TypeCheckPaymentStatus
          /\ t.payload = Marshal(1) /\ t.retried = RetryMaxAttempts

\* C29: a HandleProcessPayment invocation makes no enqueue call on any path
\* and its steps leave the number of tasks as it is, changing no task but
\* its own; and whenever a step that changes a task in flight other than by
\* the passing of time (a handler's step) adds a task to the queue, the step
\* is the scheduling step of HandleCheckPaymentStatus and the task is a fresh
\* status check.
C29_Log ==
    \A t \in Tasks :
       (Begun(t) /\ t.inv.handler = "process") =>
          /\ CallsOf(t.inv, "enqueue") = <<>>
          /\ t.pc \in {"update", "save", "return"}
          /\ Len(t.inv.calls) <= 2
C29_Effect ==
    \A t \in Tasks :
       (IsActive(t) /\ CopiesIn(t, tasks') < CopiesIn(t, tasks) /\ ~Tick) =>
          /\ (RegisterHandlers(t.typ) = "process"
                /\ t.pc \in {"start", "update", "save"}) =>
                /\ BagCardinality(tasks') = BagCardinality(tasks)
                /\ \A t2 \in BagToSet(tasks') :
                      Entered(t2) =>
                         (IsActive(t2) /\ t2.typ = t.typ /\ t2.payload = t.payload
                            /\ t2.inv.handler = "process")
          /\ BagCardinality(tasks') > BagCardinality(tasks) =>
                /\ t.pc = "schedule" /\ t.inv.handler = "check"
                /\ BagCardinality(tasks') = BagCardinality(tasks) + 1
                /\ \E t2 \in BagToSet(tasks') :
                      Entered(t2) /\ FreshCheck(t2) /\ t2.state = "scheduled"
C29_ProcessIsOneShot == [](C29_Log) /\ [][C29_Effect]_vars

C29_Witness ==
    /\ BagCardinality(tasks) = 1
    /\ \E t \in Tasks :
          /\ Returned(t) /\ t.inv.handler = "process" /\ t.inv.err = Nil
          /\ t.retried = 1
          /\ payments[t.inv.id].status = PaymentStatusCompleted

\* In a step: the call u of UpdatePayment saves its copy with success on
\* payment p.
Saves(u, p) ==
    /\ updates.call[u].pc = "read" /\ updates'.call[u].pc # "read"
    /\ updates.call[u].id = p
    /\ payments'[p] # payments[p]

\* C30 as the spec words it: a successful update leaves the payment's
\* amount, currency, owner and created timestamp and every other payment
\* unchanged, sets the requested status and the updated timestamp, and
\* leaves the stored description unchanged when the request's is empty.
C30_StoredDescriptionKept ==
    [][ \A u \in Updaters, p \in DOMAIN payments :
           Saves(u, p) =>
              /\ payments'[p].amount = payments[p].amount
              /\ payments'[p].currency = payments[p].currency
              /\ payments'[p].userID = payments[p].userID
              /\ payments'[p].age = payments[p].age
              /\ payments'[p].status = updates.call[u].req.status
              /\ payments'[p].updated = 0
              /\ payments'[p].description =
                    IF updates.call[u].req.description = ""
                    THEN payments[p].description
                    ELSE updates.call[u].req.description
              /\ \A other \in DOMAIN payments :
                    other # p => payments'[other] = payments[other] ]_vars

\* C30: on every reachable table, a call of UpdatePayment with nothing else
\* between its fetch and its save that succeeds is on an existing payment and
\* leaves that payment's row as it was but for the status (the requested
\* one), the description (the requested one, or the stored one when the
\* request's is empty) and the updated timestamp (set to now): amount,
\* currency, owner and created timestamp are unchanged, the response carries
\* the same id, and every other row is unchanged; a call that fails leaves
\* the table unchanged. With other calls between the fetch and the save, a
\* save that succeeds writes the row the call fetched, not deleted, with the
\* requested status, the requested description (the fetched one when the
\* request's is empty) and the updated timestamp set to now; amount,
\* currency, owner and created timestamp are those stored before and every
\* other row is unchanged; the stored description is the one stored before
\* when the request's is empty and no other save has changed it since the
\* fetch.
C30_Frame ==
    \A id \in DOMAIN payments,
       status \in {PaymentStatusPending, PaymentStatusCompleted,
                   PaymentStatusFailed, PaymentStatusCanceled},
       text \in {"", "Updated description"}, fault \in {"none", "get", "save"} :
       LET r == UpdatePayment(payments, id, UpdatePaymentRequest(status, text), fault)
       IN /\ r.err # Nil => r.store = payments
          /\ r.err = Nil =>
                /\ payments[id].exists /\ ~payments[id].deleted
                /\ DOMAIN r.store = DOMAIN payments
                /\ r.store[id] =
                      [payments[id] EXCEPT
                         !.status = status,
                         !.description = IF text = "" THEN @ ELSE text,
                         !.updated = 0]
                /\ r.view = entityToResponse(id, r.store[id])
                /\ r.view.id = id
                /\ \A other \in DOMAIN payments :
                      other # id => r.store[other] = payments[other]
C30_Effect ==
    \A u \in Updaters, p \in DOMAIN payments :
       Saves(u, p) =>
          LET c == updates.call[u]
          IN /\ payments'[p] =
                   [c.row EXCEPT
                      !.status = c.req.status,
                      !.description =
                          IF c.req.description = "" THEN @ ELSE c.req.description,
                      !.updated = 0]
             /\ payments'[p].exists /\ ~payments'[p].deleted
             /\ payments'[p].amount = payments[p].amount
             /\ payments'[p].currency = payments[p].currency
             /\ payments'[p].userID = payments[p].userID
             /\ payments'[p].age = payments[p].age
             /\ (c.req.description = "" /\ c.row.description = payments[p].description) =>
                   payments'[p].description = payments[p].description
             /\ \A other \in DOMAIN payments :
                   other # p => payments'[other] = payments[other]
C30_UpdateFrame == [](C30_Frame) /\ [][C30_Effect]_vars

C30_Witness ==
    /\ payments[2].exists /\ payments[2].status = PaymentStatusPending
    /\ payments[2].updated = 1
    /\ payments[1].status = PaymentStatusCanceled
    /\ payments[1].description = "client note"
    /\ payments[1].amount # payments[2].amount
    /\ payments[1].age = 1 /\ payments[1].updated = 0
    /\ updates.call["b"].pc = "done" /\ updates.call["b"].err = Nil
    /\ updates.call["b"].id = 1 /\ updates.order = <<"b">>

====
